---- MODULE Spec2Model ----
(***************************************************************************)
(* State-machine model of the cart, stock and order services of the        *)
(* e-commerce backend (app/services, app/repositories, app/models).        *)
(* One request runs to completion: every action is one service call,       *)
(* including the repository calls and commits it makes.                    *)
(***************************************************************************)
EXTENDS Integers, Sequences, FiniteSets, TLC

\* ------------------------------------------------------------------ bounds
MaxStock == 2
MaxQty == 2
MaxPrice == 2
MaxCarts == 2
MaxOrders == 1
MaxNotes == 1
MaxCalls == 2
MaxCategories == 3
MaxDepth == 2
MaxRetries == 3

\* OrderService: the tax rate in percent, the cart total from which shipping is
\* free, and the flat shipping fees of the two creation paths
TaxRatePercent == 21
FreeShippingFrom == 100
ShippingFee == 10
DirectShippingFee == 10

\* ------------------------------------------------------------- input sets
None == "None"
Products == {"p1", "p2"}
UnknownProduct == "p9"
ProductIds == Products \cup {UnknownProduct}
Customers == {"u1", "u2"}
Superusers == {"admin"}
Users == Customers \cup Superusers
Requesters == Users \cup {None}
Operations == {"add", "subtract", "set"}
Prices == 1..MaxPrice
MinStock == 0 - MaxStock
CartIds == 1..MaxCarts
OrderIds == 1..MaxOrders
CallIds == 1..MaxCalls
Sessions == {"s1"}
CategoryIds == 1..MaxCategories
\* a null parent_id (the code tests it with `if parent_id:`)
NoParent == 0
QtyCap == MaxStock + 1
StockCap == MaxStock + MaxQty

OrderStatus == {"pending", "confirmed", "processing", "shipped",
                "delivered", "cancelled", "refunded"}
PaymentStatus == {"pending", "paid", "failed", "refunded"}

VARIABLES
    stock_quantity,   \* Product.stock_quantity, per product id
    is_active,        \* Product.is_active, per product id
    current_price,    \* Product.current_price, per product id
    carts,            \* table carts: sequence of rows, the id is the index
    cart_items,       \* table cart_items: per cart id and product id, its rows
    orders,           \* table orders (each with its order_items)
    result,           \* history: the last service call and the error it raised
    tracked,          \* the service calls whose outcome `result` records
    calls,            \* requests in flight: per call id, what it has read so far
    categories,       \* table categories: per existing category id, its row
    category_id       \* Product.category_id, per product id

vars == <<stock_quantity, is_active, current_price, carts, cart_items, orders,
          result, tracked, calls, categories, category_id>>

\* a row of the categories table
Category(parent_id, active) == [parent_id |-> parent_id, is_active |-> active]

\* a request that is not running
Idle == [op |-> "idle", user_id |-> None, session_id |-> None, seen |-> 0]

Max(a, b) == IF a >= b THEN a ELSE b
Min(S) == CHOOSE x \in S : \A y \in S : x <= y

Untracked == [op |-> "other", err |-> "ok", branch |-> "-"]

\* `branch` names the branch a successful call took, where it has several
ResultIn(op, err, branch) ==
    IF op \in tracked THEN [op |-> op, err |-> err, branch |-> branch]
    ELSE Untracked

Result(op, err) == ResultIn(op, err, "-")

NoItems == [p \in Products |-> <<>>]

InitWith(ops) ==
    /\ stock_quantity = [p \in Products |-> MaxStock]
    /\ is_active = [p \in Products |-> TRUE]
    /\ current_price = [p \in Products |-> 1]
    /\ carts = <<>>
    /\ cart_items = [c \in CartIds |-> NoItems]
    /\ orders = <<>>
    /\ result = Untracked
    /\ tracked = ops
    /\ calls = [r \in CallIds |-> Idle]
    /\ categories = [c \in {1} |-> Category(NoParent, TRUE)]
    /\ category_id = [p \in Products |-> 1]

\* ------------------------------------------------------------ stock ledger
\* plausible bug: subtract without the floor at zero
update_stock_no_floor(stock, product_id, quantity, operation) ==
    IF product_id \notin DOMAIN stock THEN stock
    ELSE [stock EXCEPT ![product_id] =
            CASE operation = "add" -> @ + quantity
              [] operation = "subtract" -> @ - quantity
              [] operation = "set" -> Max(0, quantity)
              [] OTHER -> @]

\* ProductRepository.update_stock: the stock column afterwards; a product id
\* that does not resolve returns None and writes nothing.
update_stock(stock, product_id, quantity, operation) ==
    IF product_id \notin DOMAIN stock THEN stock
    ELSE [stock EXCEPT ![product_id] =
            CASE operation = "add" -> @ + quantity
              [] operation = "subtract" -> Max(0, @ - quantity)
              [] operation = "set" -> Max(0, quantity)
              [] OTHER -> @]

InStockRange(stock) == \A p \in DOMAIN stock : stock[p] \in MinStock..StockCap

\* ProductRepository.update_stock called on its own (the ledger contract)
repository_update_stock(product_id, quantity, operation) ==
    LET new == update_stock(stock_quantity, product_id, quantity, operation) IN
    /\ InStockRange(new)
    /\ stock_quantity' = new
    /\ result' = ResultIn("repository_update_stock",
                          IF product_id \in Products THEN "ok" ELSE "None", operation)
    /\ UNCHANGED <<is_active, current_price, carts, cart_items, orders, tracked, calls, categories, category_id>>

\* ProductService.update_stock
service_update_stock(product_id, quantity, operation) ==
    LET err == IF product_id \notin Products THEN "NotFound"
               ELSE IF ~is_active[product_id] THEN "BadRequest"
               ELSE IF operation = "subtract"
                       /\ stock_quantity[product_id] < quantity THEN "BadRequest"
               ELSE "ok"
        new == IF err = "ok"
               THEN update_stock(stock_quantity, product_id, quantity, operation)
               ELSE stock_quantity
    IN
    /\ InStockRange(new)
    /\ stock_quantity' = new
    /\ result' = Result("update_stock", err)
    /\ UNCHANGED <<is_active, current_price, carts, cart_items, orders, tracked, calls, categories, category_id>>

\* ---------------------------------------------------------------- products
\* ProductService.deactivate_product / activate_product
set_product_active(product_id, active) ==
    /\ is_active' = [is_active EXCEPT ![product_id] = active]
    /\ result' = Result(IF active THEN "activate_product" ELSE "deactivate_product",
                        "ok")
    /\ UNCHANGED <<stock_quantity, current_price, carts, cart_items, orders, tracked, calls, categories, category_id>>

\* plausible bug: a price change reprices the items of the orders already
\* placed
update_product_price_reprices(product_id, price) ==
    LET err == IF ~is_active[product_id] THEN "BadRequest" ELSE "ok" IN
    /\ current_price' = IF err = "ok"
                        THEN [current_price EXCEPT ![product_id] = price]
                        ELSE current_price
    /\ orders' = IF err = "ok"
                 THEN [o \in DOMAIN orders |->
                          [orders[o] EXCEPT !.items[product_id] =
                              [i \in DOMAIN @ |-> [@[i] EXCEPT !.unit_price = price]]]]
                 ELSE orders
    /\ result' = Result("update_product", err)
    /\ UNCHANGED <<stock_quantity, is_active, carts, cart_items, tracked, calls, categories, category_id>>

\* ProductService.update_product with a new price or sale price: only an
\* active product is updated.
update_product_price(product_id, price) ==
    LET err == IF ~is_active[product_id] THEN "BadRequest" ELSE "ok" IN
    /\ current_price' = IF err = "ok"
                        THEN [current_price EXCEPT ![product_id] = price]
                        ELSE current_price
    /\ result' = Result("update_product", err)
    /\ UNCHANGED <<stock_quantity, is_active, carts, cart_items, orders, tracked, calls, categories, category_id>>

\* ------------------------------------------------------------------- carts
Row(quantity, unit_price) == [quantity |-> quantity, unit_price |-> unit_price]

\* a sequence without its i-th element
Without(seq, i) == SubSeq(seq, 1, i - 1) \o SubSeq(seq, i + 1, Len(seq))

\* what `.first()` may return for a lookup in `rows`: the index of a row, 0
\* when there is none (None)
first_of(rows) == IF rows = <<>> THEN {0} ELSE 1..Len(rows)

\* CartRepository.get_active_cart_by_user: the carts the query matches
get_active_cart_by_user(user_id) ==
    {i \in DOMAIN carts : carts[i].user_id = user_id /\ carts[i].is_active}

active_cart_by_session(session_id) ==
    {i \in DOMAIN carts : carts[i].session_id = session_id /\ carts[i].is_active}

NewCart(user_id, session_id) ==
    [user_id |-> user_id, session_id |-> session_id, is_active |-> TRUE]

\* CartRepository.get_or_create_cart, user branch: the carts table afterwards
carts_after_get_or_create(user_id) ==
    IF get_active_cart_by_user(user_id) # {} THEN carts
    ELSE Append(carts, NewCart(user_id, None))

\* ... and the id of the cart it returns
user_cart_id(user_id) ==
    IF get_active_cart_by_user(user_id) # {}
    THEN Min(get_active_cart_by_user(user_id))
    ELSE Len(carts) + 1

\* CartService.get_or_create_user_cart
get_or_create_user_cart(user_id) ==
    /\ Len(carts_after_get_or_create(user_id)) <= MaxCarts
    /\ carts' = carts_after_get_or_create(user_id)
    /\ result' = Result("get_or_create_user_cart", "ok")
    /\ UNCHANGED <<stock_quantity, is_active, current_price, cart_items, orders, tracked, calls, categories, category_id>>

\* CartService.get_or_create_session_cart
get_or_create_session_cart(session_id) ==
    /\ active_cart_by_session(session_id) # {} \/ Len(carts) < MaxCarts
    /\ carts' = IF active_cart_by_session(session_id) # {} THEN carts
                ELSE Append(carts, NewCart(None, session_id))
    /\ result' = Result("get_or_create_session_cart", "ok")
    /\ UNCHANGED <<stock_quantity, is_active, current_price, cart_items, orders, tracked, calls, categories, category_id>>

\* plausible bug: always insert a new row
repository_add_item_always_insert(rows, existing, quantity, price) ==
    Append(rows, Row(quantity, price))

\* CartRepository.add_item_to_cart after its product and stock checks, on the
\* rows of (cart_id, product_id): `existing` is the index of the row the
\* lookup returned, 0 when it returned None.
repository_add_item(rows, existing, quantity, price) ==
    IF existing # 0
    THEN [rows EXCEPT ![existing].quantity = @ + quantity]
    ELSE Append(rows, Row(quantity, price))

\* plausible bug: the combined quantity is not checked against the stock
add_item_error_no_recheck(rows, existing, cart_id, product_id, quantity) ==
    IF cart_id \notin DOMAIN carts THEN "NotFound"
    ELSE IF quantity <= 0 THEN "BadRequest"
    ELSE IF product_id \notin Products THEN "BadRequest"
    ELSE IF ~is_active[product_id] THEN "BadRequest"
    ELSE IF stock_quantity[product_id] < quantity THEN "BadRequest"
    ELSE "ok"

\* The error CartService.add_item_to_cart raises ("ok" when none)
add_item_error(rows, existing, cart_id, product_id, quantity) ==
    IF cart_id \notin DOMAIN carts THEN "NotFound"
    ELSE IF quantity <= 0 THEN "BadRequest"
    ELSE IF product_id \notin Products THEN "BadRequest"
    ELSE IF ~is_active[product_id] THEN "BadRequest"
    ELSE IF stock_quantity[product_id] < quantity THEN "BadRequest"
    ELSE IF existing # 0 /\ stock_quantity[product_id] < rows[existing].quantity + quantity
         THEN "BadRequest"
    ELSE "ok"

\* the rows of (cart_id, product_id); none for an id that is not a cart's or
\* a product's
rows_of(cart_id, product_id) ==
    IF cart_id \in CartIds /\ product_id \in Products
    THEN cart_items[cart_id][product_id]
    ELSE <<>>

\* CartService.add_item_to_cart
add_item_to_cart(cart_id, product_id, quantity) ==
    \E existing \in first_of(rows_of(cart_id, product_id)) :
        LET rows == rows_of(cart_id, product_id)
            err == add_item_error(rows, existing, cart_id, product_id, quantity)
        IN
        /\ cart_items' =
              IF err = "ok"
              THEN [cart_items EXCEPT ![cart_id][product_id] =
                      repository_add_item(rows, existing, quantity,
                                          current_price[product_id])]
              ELSE cart_items
        /\ result' = ResultIn("add_item_to_cart", err,
                               IF err # "ok" THEN "-"
                               ELSE IF existing # 0 THEN "incremented" ELSE "created")
        /\ UNCHANGED <<stock_quantity, is_active, current_price, carts, orders, tracked, calls, categories, category_id>>

\* The ownership check shared by the cart mutations:
\* `if user and cart.user_id and cart.user_id != user.id`
cart_forbidden(cart_id, user) ==
    /\ user # None
    /\ carts[cart_id].user_id # None
    /\ carts[cart_id].user_id # user

\* a cart item id resolves when its row exists
item_exists(item) ==
    /\ item[1] \in DOMAIN carts
    /\ item[3] \in DOMAIN cart_items[item[1]][item[2]]

\* CartService.update_cart_item_quantity; a cart item id is modelled as
\* <<cart id, product id, index among the rows of that pair>>.
update_cart_item_quantity(item, quantity, user) ==
    LET err == IF quantity <= 0 THEN "BadRequest"
               ELSE IF ~item_exists(item) THEN "NotFound"
               ELSE IF cart_forbidden(item[1], user) THEN "Forbidden"
               ELSE IF ~is_active[item[2]] THEN "BadRequest"
               ELSE IF stock_quantity[item[2]] < quantity THEN "BadRequest"
               ELSE "ok"
    IN
    /\ cart_items' = IF err = "ok"
                     THEN [cart_items EXCEPT ![item[1]][item[2]][item[3]].quantity =
                                                quantity]
                     ELSE cart_items
    /\ result' = Result("update_cart_item_quantity", err)
    /\ UNCHANGED <<stock_quantity, is_active, current_price, carts, orders, tracked, calls, categories, category_id>>

\* CartService.remove_item_from_cart
remove_item_from_cart(item, user) ==
    LET err == IF ~item_exists(item) THEN "NotFound"
               ELSE IF cart_forbidden(item[1], user) THEN "Forbidden"
               ELSE "ok"
    IN
    /\ cart_items' = IF err = "ok"
                     THEN [cart_items EXCEPT ![item[1]][item[2]] = Without(@, item[3])]
                     ELSE cart_items
    /\ result' = Result("remove_item_from_cart", err)
    /\ UNCHANGED <<stock_quantity, is_active, current_price, carts, orders, tracked, calls, categories, category_id>>

\* CartService.remove_product_from_cart
remove_product_from_cart(cart_id, product_id, user) ==
    \E existing \in first_of(rows_of(cart_id, product_id)) :
        LET err == IF cart_id \notin DOMAIN carts THEN "NotFound"
                   ELSE IF cart_forbidden(cart_id, user) THEN "Forbidden"
                   ELSE "ok"
        IN
        /\ cart_items' = IF err = "ok" /\ existing # 0
                         THEN [cart_items EXCEPT ![cart_id][product_id] =
                                                    Without(@, existing)]
                         ELSE cart_items
        /\ result' = Result("remove_product_from_cart", err)
        /\ UNCHANGED <<stock_quantity, is_active, current_price, carts, orders, tracked, calls, categories, category_id>>

\* CartService.clear_cart
clear_cart(cart_id, user) ==
    LET err == IF cart_id \notin DOMAIN carts THEN "NotFound"
               ELSE IF cart_forbidden(cart_id, user) THEN "Forbidden"
               ELSE "ok"
    IN
    /\ cart_items' = IF err = "ok" THEN [cart_items EXCEPT ![cart_id] = NoItems]
                     ELSE cart_items
    /\ result' = Result("clear_cart", err)
    /\ UNCHANGED <<stock_quantity, is_active, current_price, carts, orders, tracked, calls, categories, category_id>>

\* CartRepository.deactivate_cart: the carts table afterwards
repository_deactivate_cart(table, cart_id) ==
    IF cart_id \in DOMAIN table
    THEN [table EXCEPT ![cart_id].is_active = FALSE]
    ELSE table

\* CartService.deactivate_cart
deactivate_cart(cart_id, user) ==
    LET err == IF cart_id \notin DOMAIN carts THEN "NotFound"
               ELSE IF cart_forbidden(cart_id, user) THEN "Forbidden"
               ELSE "ok"
    IN
    /\ carts' = IF err = "ok" THEN repository_deactivate_cart(carts, cart_id)
                ELSE carts
    /\ result' = Result("deactivate_cart", err)
    /\ UNCHANGED <<stock_quantity, is_active, current_price, cart_items, orders, tracked, calls, categories, category_id>>

\* plausible bug: a merged item is always inserted as a new row
merge_rows_always_insert(user_rows, session_rows) ==
    user_rows \o session_rows

\* The loop of CartRepository.merge_carts on one product: the user cart's rows
\* after the session cart's rows of that product were merged in. The session
\* is opened with autoflush off, so a lookup sees the rows the user cart had
\* (with the quantities already raised in this call), not the rows added in
\* this call.
RECURSIVE merge_rows(_, _)
merge_rows(user_rows, session_rows) ==
    IF session_rows = <<>> THEN user_rows
    ELSE IF user_rows = <<>> THEN session_rows
    ELSE merge_rows([user_rows EXCEPT ![1].quantity = @ + Head(session_rows).quantity],
                    Tail(session_rows))

\* CartRepository.merge_carts: the cart_items table afterwards
merge_carts(user_cart, session_cart) ==
    [cart_items EXCEPT ![user_cart] =
        [p \in Products |-> merge_rows(cart_items[user_cart][p],
                                       IF session_cart \in CartIds
                                       THEN cart_items[session_cart][p] ELSE <<>>)]]

\* CartService.merge_session_cart_to_user
merge_session_cart_to_user(user_id, session_cart_id) ==
    LET table == carts_after_get_or_create(user_id)
        merged == merge_carts(user_cart_id(user_id), session_cart_id)
    IN
    /\ Len(table) <= MaxCarts
    /\ \A c \in CartIds, p \in Products :
          \A i \in DOMAIN merged[c][p] : merged[c][p][i].quantity <= QtyCap
    /\ cart_items' = merged
    /\ carts' = repository_deactivate_cart(table, session_cart_id)
    /\ result' = Result("merge_session_cart_to_user", "ok")
    /\ UNCHANGED <<stock_quantity, is_active, current_price, orders, tracked, calls, categories, category_id>>

\* the cart_items table with the session cart's rows merged in for the
\* products of `done` only: the writes pending in the session when an
\* exception is raised inside the loop of merge_carts
merge_partial(user_cart, session_cart, done) ==
    [cart_items EXCEPT ![user_cart] =
        [p \in Products |->
            IF p \in done THEN merge_carts(user_cart, session_cart)[user_cart][p]
            ELSE cart_items[user_cart][p]]]

\* plausible bug: every merged item is committed on its own
merge_rolled_back_keeps_done(user_cart, session_cart, done) ==
    merge_partial(user_cart, session_cart, done)

\* CartRepository.merge_carts, `except Exception: db.rollback()`: nothing is
\* committed before deactivate_cart's commit, so the rollback discards the
\* pending writes and the cart_items table is as it was.
merge_rolled_back(user_cart, session_cart, done) ==
    cart_items

\* CartService.merge_session_cart_to_user when the database raises inside
\* merge_carts after the items of `done` were handled: merge_carts returns
\* False and the service raises BadRequest. The user's cart that
\* get_or_create_user_cart created stays (it was committed before).
merge_session_cart_fails(user_id, session_cart_id, done) ==
    LET table == carts_after_get_or_create(user_id) IN
    /\ Len(table) <= MaxCarts
    /\ done \subseteq {p \in Products : session_cart_id \in CartIds
                                         /\ cart_items[session_cart_id][p] # <<>>}
    /\ cart_items' = merge_rolled_back(user_cart_id(user_id), session_cart_id, done)
    /\ carts' = table
    /\ result' = Result("merge_session_cart_to_user", "BadRequest")
    /\ UNCHANGED <<stock_quantity, is_active, current_price, orders, tracked, calls, categories, category_id>>

\* CartRepository.get_or_create_cart as two steps of a request: first the
\* lookup of the owner's active cart (0 when the query finds none) ...
get_or_create_lookup(r, user_id, session_id) ==
    LET found == IF user_id # None THEN get_active_cart_by_user(user_id)
                 ELSE active_cart_by_session(session_id)
    IN
    /\ calls[r] = Idle
    /\ calls' = [calls EXCEPT ![r] =
                    [op |-> "get_or_create_cart", user_id |-> user_id,
                     session_id |-> session_id,
                     seen |-> IF found = {} THEN 0 ELSE Min(found)]]
    /\ result' = Untracked
    /\ UNCHANGED <<stock_quantity, is_active, current_price, carts, cart_items,
                   orders, tracked, categories, category_id>>

\* ... then, when none was found, the insert of a new active cart and its
\* commit. Nothing between the two steps holds a lock, and the table has no
\* unique index on the owner key.
get_or_create_insert(r) ==
    /\ calls[r].op = "get_or_create_cart"
    /\ calls[r].seen = 0 => Len(carts) < MaxCarts
    /\ carts' = IF calls[r].seen # 0 THEN carts
                ELSE Append(carts, NewCart(calls[r].user_id, calls[r].session_id))
    /\ calls' = [calls EXCEPT ![r] = Idle]
    /\ result' = Result("get_or_create_cart", "ok")
    /\ UNCHANGED <<stock_quantity, is_active, current_price, cart_items, orders,
                   tracked, categories, category_id>>

\* CartRepository.validate_cart_items_stock: the list it returns, one dict for
\* each item whose product is inactive or has less stock than the quantity
validate_cart_items_stock(cart_id) ==
    {[item_id |-> <<cart_id, p, i>>, product_id |-> p,
      reason |-> "Product not available", available_quantity |-> 0] :
        <<p, i>> \in {x \in Products \X (1..QtyCap) :
                        /\ x[2] \in DOMAIN cart_items[cart_id][x[1]]
                        /\ ~is_active[x[1]]}}
    \cup
    {[item_id |-> <<cart_id, p, i>>, product_id |-> p,
      reason |-> "Insufficient stock", available_quantity |-> stock_quantity[p],
      requested_quantity |-> cart_items[cart_id][p][i].quantity] :
        <<p, i>> \in {x \in Products \X (1..QtyCap) :
                        /\ x[2] \in DOMAIN cart_items[cart_id][x[1]]
                        /\ is_active[x[1]]
                        /\ stock_quantity[x[1]]
                             < cart_items[cart_id][x[1]][x[2]].quantity}}

\* CartService.validate_cart_stock
validate_cart_stock(cart_id) ==
    /\ result' = Result("validate_cart_stock", "ok")
    /\ UNCHANGED <<stock_quantity, is_active, current_price, carts, cart_items,
                   orders, tracked, calls, categories, category_id>>

\* GET /cart/validate: the user's cart is fetched or created, then every
\* returned dict is read at the key "available", which none of them has
validate_cart_stock_endpoint(user_id) ==
    /\ Len(carts_after_get_or_create(user_id)) <= MaxCarts
    /\ carts' = carts_after_get_or_create(user_id)
    /\ result' = Result("validate_cart_stock_endpoint",
                        IF validate_cart_items_stock(user_cart_id(user_id)) = {}
                        THEN "ok" ELSE "KeyError")
    /\ UNCHANGED <<stock_quantity, is_active, current_price, cart_items, orders,
                   tracked, calls, categories, category_id>>

ItemIds == CartIds \X Products \X {1}

\* ------------------------------------------------------------------ orders
\* the quantity of product p over a list of item rows
RECURSIVE quantity_of(_)
quantity_of(rows) ==
    IF rows = <<>> THEN 0 ELSE Head(rows).quantity + quantity_of(Tail(rows))

\* stock after one ledger call per row of one product
RECURSIVE ledger_rows(_, _, _, _)
ledger_rows(stock, product_id, rows, operation) ==
    IF rows = <<>> THEN stock
    ELSE ledger_rows(update_stock(stock, product_id, Head(rows).quantity, operation),
                     product_id, Tail(rows), operation)

\* stock after one ledger call per item of `items`
RECURSIVE ledger_items(_, _, _, _)
ledger_items(stock, items, todo, operation) ==
    IF todo = {} THEN stock
    ELSE LET p == CHOOSE x \in todo : TRUE
         IN ledger_items(ledger_rows(stock, p, items[p], operation), items,
                         todo \ {p}, operation)

\* plausible bug: one unit is taken per item, whatever its quantity
update_product_stock_one_each(stock, items) ==
    [p \in DOMAIN stock |-> Max(0, stock[p] - Len(items[p]))]

\* OrderService._update_product_stock: the stock column afterwards
update_product_stock(stock, items) ==
    ledger_items(stock, items, DOMAIN items, "subtract")

\* plausible bug: the stock is restored once per product, not per quantity
restore_product_stock_one_each(stock, items) ==
    [p \in DOMAIN stock |-> stock[p] + Len(items[p])]

\* OrderService._restore_product_stock: the stock column afterwards
restore_product_stock(stock, items) ==
    ledger_items(stock, items, DOMAIN items, "add")

\* Amounts are kept in hundredths, the scale of the Numeric(10, 2) columns
Cents == 100

\* the amount one step of the model's price scale stands for: whole currency
\* units, chosen so that subtotals below, at and above the free-shipping
\* threshold all occur
PriceUnit == (FreeShippingFrom \div MaxPrice) * Cents

amount(price) == price * PriceUnit

\* CartItem.subtotal, and OrderItem.total_price of a direct order
subtotal(row) == amount(row.unit_price) * row.quantity

RECURSIVE sum_of_subtotals(_)
sum_of_subtotals(rows) ==
    IF rows = <<>> THEN 0
    ELSE subtotal(Head(rows)) + sum_of_subtotals(Tail(rows))

\* Cart.total_amount over the items of the products ps; create_order_direct
\* accumulates the same sum over its order items
RECURSIVE total_amount(_, _)
total_amount(items, ps) ==
    IF ps = {} THEN 0
    ELSE LET p == CHOOSE x \in ps : TRUE IN
         sum_of_subtotals(items[p]) + total_amount(items, ps \ {p})

\* OrderService._calculate_tax: subtotal * Decimal("0.21")
calculate_tax(sub) == (sub * TaxRatePercent) \div 100

\* plausible bug: an order of exactly the threshold pays shipping
calculate_shipping_strict(cart_total) ==
    IF cart_total > FreeShippingFrom * Cents THEN 0 ELSE ShippingFee * Cents

\* OrderService._calculate_shipping
calculate_shipping(cart_total) ==
    IF cart_total >= FreeShippingFrom * Cents THEN 0 ELSE ShippingFee * Cents

\* OrderService._calculate_shipping_direct
calculate_shipping_direct == DirectShippingFee * Cents

\* The Order and OrderItem rows both creation paths insert; total_price holds
\* the OrderItem.total_price of each item
NewOrder(user_id, items, shipping_cost) ==
    LET sub == total_amount(items, Products)
        tax_amount == calculate_tax(sub)
        discount_amount == 0
    IN [user_id |-> user_id, status |-> "pending", payment_status |-> "pending",
        items |-> items, shipped_at |-> None, delivered_at |-> None, notes |-> 0,
        subtotal |-> sub, tax_amount |-> tax_amount,
        shipping_cost |-> shipping_cost, discount_amount |-> discount_amount,
        total_amount |-> sub + tax_amount + shipping_cost - discount_amount,
        total_price |-> [p \in Products |->
                            [i \in DOMAIN items[p] |-> subtotal(items[p][i])]]]

\* a cart item the checkout rejects: product inactive or stock below quantity
item_unavailable(product_id, row) ==
    \/ ~is_active[product_id]
    \/ stock_quantity[product_id] < row.quantity

\* plausible bug: the stock of the items is not checked at checkout
create_order_error_no_stock_check(cart_id, user) ==
    IF \A p \in Products : cart_items[cart_id][p] = <<>> THEN "BadRequest"
    ELSE IF carts[cart_id].user_id # user THEN "Forbidden"
    ELSE IF \E p \in Products : cart_items[cart_id][p] # <<>> /\ ~is_active[p]
         THEN "BadRequest"
    ELSE "ok"

\* The error OrderService.create_order_from_cart raises ("ok" when none)
create_order_error(cart_id, user) ==
    IF \A p \in Products : cart_items[cart_id][p] = <<>> THEN "BadRequest"
    ELSE IF carts[cart_id].user_id # user THEN "Forbidden"
    ELSE IF \E p \in Products : \E i \in DOMAIN cart_items[cart_id][p] :
                item_unavailable(p, cart_items[cart_id][p][i])
         THEN "BadRequest"
    ELSE "ok"

\* OrderService.create_order_from_cart, called with an existing cart
create_order_from_cart(cart_id, user) ==
    LET err == create_order_error(cart_id, user) IN
    /\ cart_id \in DOMAIN carts
    /\ err = "ok" => Len(orders) < MaxOrders
    /\ orders' = IF err = "ok"
                 THEN Append(orders,
                             NewOrder(user, cart_items[cart_id],
                                      calculate_shipping(
                                          total_amount(cart_items[cart_id], Products))))
                 ELSE orders
    /\ stock_quantity' = IF err = "ok"
                         THEN update_product_stock(stock_quantity, cart_items[cart_id])
                         ELSE stock_quantity
    /\ result' = Result("create_order_from_cart", err)
    /\ UNCHANGED <<is_active, current_price, carts, cart_items, tracked, calls, categories, category_id>>

\* the order items create_order_direct builds from the validated item list:
\* the price is the product's current price
RECURSIVE direct_items(_, _)
direct_items(item_list, items) ==
    IF item_list = <<>> THEN items
    ELSE LET it == Head(item_list) IN
         direct_items(Tail(item_list),
                      [items EXCEPT ![it.product_id] =
                          Append(@, Row(it.quantity, current_price[it.product_id]))])

\* The error OrderService.create_order_direct raises ("ok" when none)
create_direct_error(item_list) ==
    IF item_list = <<>> THEN "BadRequest"
    ELSE IF \E i \in DOMAIN item_list :
               \/ item_list[i].product_id \notin Products
               \/ ~is_active[item_list[i].product_id]
               \/ stock_quantity[item_list[i].product_id] < item_list[i].quantity
         THEN "BadRequest"
    ELSE "ok"

\* OrderService.create_order_direct: no stock is taken
create_order_direct(user, item_list) ==
    LET err == create_direct_error(item_list) IN
    /\ err = "ok" => Len(orders) < MaxOrders
    /\ orders' = IF err = "ok"
                 THEN Append(orders,
                             NewOrder(user, direct_items(item_list, NoItems),
                                      calculate_shipping_direct))
                 ELSE orders
    /\ result' = Result("create_order_direct", err)
    /\ UNCHANGED <<stock_quantity, is_active, current_price, carts, cart_items, tracked, calls, categories, category_id>>

\* plausible bug: a delivered order may be sent back to shipped
is_valid_status_transition_reopen(current_status, new_status) ==
    \/ current_status = "pending" /\ new_status \in {"confirmed", "cancelled"}
    \/ current_status = "confirmed" /\ new_status \in {"processing", "cancelled"}
    \/ current_status = "processing" /\ new_status \in {"shipped", "cancelled"}
    \/ current_status = "shipped" /\ new_status \in {"delivered"}
    \/ current_status = "delivered" /\ new_status \in {"shipped"}

\* OrderService._is_valid_status_transition
is_valid_status_transition(current_status, new_status) ==
    \/ current_status = "pending" /\ new_status \in {"confirmed", "cancelled"}
    \/ current_status = "confirmed" /\ new_status \in {"processing", "cancelled"}
    \/ current_status = "processing" /\ new_status \in {"shipped", "cancelled"}
    \/ current_status = "shipped" /\ new_status \in {"delivered"}
    \/ current_status = "delivered" /\ new_status \in {}
    \/ current_status = "cancelled" /\ new_status \in {}
    \/ current_status = "refunded" /\ new_status \in {}

Now == "now"

\* OrderService.update_order_status
update_order_status(order_id, new_status, current_user) ==
    LET err == IF order_id \notin DOMAIN orders THEN "NotFound"
               ELSE IF current_user \notin Superusers THEN "Forbidden"
               ELSE IF ~is_valid_status_transition(orders[order_id].status, new_status)
                    THEN "BadRequest"
               ELSE "ok"
    IN
    /\ orders' =
          IF err # "ok" THEN orders
          ELSE [orders EXCEPT
                  ![order_id].status = new_status,
                  ![order_id].shipped_at =
                      IF new_status = "shipped" /\ @ = None THEN Now ELSE @,
                  ![order_id].delivered_at =
                      IF new_status = "delivered" /\ @ = None THEN Now ELSE @]
    /\ result' = Result("update_order_status", err)
    /\ UNCHANGED <<stock_quantity, is_active, current_price, carts, cart_items, tracked, calls, categories, category_id>>

\* plausible bug: a payment confirms the order whatever its status
status_after_payment_always(status, new_payment_status) ==
    IF new_payment_status = "paid" THEN "confirmed" ELSE status

\* OrderService.update_payment_status: the order status it writes
status_after_payment(status, new_payment_status) ==
    IF new_payment_status = "paid" /\ status = "pending" THEN "confirmed" ELSE status

\* OrderService.update_payment_status
update_payment_status(order_id, new_payment_status, current_user) ==
    LET err == IF order_id \notin DOMAIN orders THEN "NotFound"
               ELSE IF current_user # None /\ current_user \notin Superusers
                    THEN "Forbidden"
               ELSE "ok"
    IN
    /\ orders' =
          IF err # "ok" THEN orders
          ELSE [orders EXCEPT
                  ![order_id].payment_status = new_payment_status,
                  ![order_id].status = status_after_payment(@, new_payment_status)]
    /\ result' = Result("update_payment_status", err)
    /\ UNCHANGED <<stock_quantity, is_active, current_price, carts, cart_items, tracked, calls, categories, category_id>>

\* plausible bug: the ownership check of cancel_order is skipped
cancel_order_error_no_owner_check(order_id, user) ==
    IF order_id \notin DOMAIN orders THEN "NotFound"
    ELSE IF orders[order_id].status \in {"shipped", "delivered"} THEN "BadRequest"
    ELSE IF orders[order_id].status = "cancelled" THEN "BadRequest"
    ELSE "ok"

\* The error OrderService.cancel_order raises ("ok" when none)
cancel_order_error(order_id, user) ==
    IF order_id \notin DOMAIN orders THEN "NotFound"
    ELSE IF user # None /\ orders[order_id].user_id # user /\ user \notin Superusers
         THEN "Forbidden"
    ELSE IF orders[order_id].status \in {"shipped", "delivered"} THEN "BadRequest"
    ELSE IF orders[order_id].status = "cancelled" THEN "BadRequest"
    ELSE "ok"

\* OrderService.cancel_order
cancel_order(order_id, user) ==
    LET err == cancel_order_error(order_id, user)
        new == IF err = "ok" /\ orders[order_id].status \in {"confirmed", "processing"}
               THEN restore_product_stock(stock_quantity, orders[order_id].items)
               ELSE stock_quantity
    IN
    /\ err = "ok" => orders[order_id].notes < MaxNotes
    /\ InStockRange(new)
    /\ stock_quantity' = new
    /\ orders' = IF err # "ok" THEN orders
                 ELSE [orders EXCEPT ![order_id].status = "cancelled",
                                     ![order_id].notes = @ + 1]
    /\ result' = Result("cancel_order", err)
    /\ UNCHANGED <<is_active, current_price, carts, cart_items, tracked, calls, categories, category_id>>

\* PUT /orders/{order_id} (endpoint update_order): BaseService.update with an
\* OrderUpdate that sets the status; superusers only.
update_order(order_id, status) ==
    /\ order_id \in DOMAIN orders
    /\ orders' = [orders EXCEPT ![order_id].status = status]
    /\ result' = Result("update_order", "ok")
    /\ UNCHANGED <<stock_quantity, is_active, current_price, carts, cart_items, tracked, calls, categories, category_id>>

\* -------------------------------------------------------------- categories
\* the id the database gives the next category
new_category_id == Min(CategoryIds \ DOMAIN categories)

\* the categories whose parent is parent_id (get_subcategories; active_only
\* is its default)
get_subcategories(parent_id, active_only) ==
    {c \in DOMAIN categories :
        /\ categories[c].parent_id = parent_id
        /\ active_only => categories[c].is_active}

\* CategoryService.create_category; names and slugs are taken fresh
create_category(parent_id) ==
    LET err == IF parent_id = NoParent THEN "ok"
               ELSE IF parent_id \notin DOMAIN categories THEN "BadRequest"
               ELSE IF ~categories[parent_id].is_active THEN "BadRequest"
               ELSE "ok"
    IN
    /\ err = "ok" => CategoryIds \ DOMAIN categories # {}
    /\ categories' =
          IF err # "ok" THEN categories
          ELSE [c \in DOMAIN categories \cup {new_category_id} |->
                   IF c = new_category_id THEN Category(parent_id, TRUE)
                   ELSE categories[c]]
    /\ result' = Result("create_category", err)
    /\ UNCHANGED <<stock_quantity, is_active, current_price, carts, cart_items,
                   orders, tracked, calls, category_id>>

\* plausible bug: only the new parent itself is compared, not its ancestors
would_create_cycle_one_level(table, category, current_id, visited) ==
    current_id = category

\* CategoryService._would_create_cycle: the walk from the new parent upwards
RECURSIVE would_create_cycle(_, _, _, _)
would_create_cycle(table, category, current_id, visited) ==
    IF current_id = NoParent \/ current_id \in visited THEN FALSE
    ELSE IF current_id = category THEN TRUE
    ELSE IF current_id \notin DOMAIN table THEN FALSE
    ELSE would_create_cycle(table, category, table[current_id].parent_id,
                            visited \cup {current_id})

\* The error CategoryService.update_category raises for a new parent_id
update_category_error(category, parent_id) ==
    IF category \notin DOMAIN categories THEN "NotFound"
    ELSE IF parent_id = NoParent THEN "ok"
    ELSE IF parent_id = category THEN "BadRequest"
    ELSE IF parent_id \notin DOMAIN categories THEN "NotFound"
    ELSE IF ~categories[parent_id].is_active THEN "BadRequest"
    ELSE IF would_create_cycle(categories, category, parent_id, {}) THEN "BadRequest"
    ELSE "ok"

\* CategoryService.update_category with a CategoryUpdate that sets parent_id
update_category(category, parent_id) ==
    LET err == update_category_error(category, parent_id) IN
    /\ categories' = IF err = "ok"
                     THEN [categories EXCEPT ![category].parent_id = parent_id]
                     ELSE categories
    /\ result' = Result("update_category", err)
    /\ UNCHANGED <<stock_quantity, is_active, current_price, carts, cart_items,
                   orders, tracked, calls, category_id>>

\* PUT /categories/{category_id} (endpoint update_category): it calls
\* BaseService.update, not CategoryService.update_category, so the only
\* checks are that the category exists and the foreign key of parent_id.
update_category_endpoint(category, parent_id) ==
    LET err == IF category \notin DOMAIN categories THEN "NotFound"
               ELSE IF parent_id # NoParent /\ parent_id \notin DOMAIN categories
                    THEN "IntegrityError"
               ELSE "ok"
    IN
    /\ categories' = IF err = "ok"
                     THEN [categories EXCEPT ![category].parent_id = parent_id]
                     ELSE categories
    /\ result' = Result("update_category_endpoint", err)
    /\ UNCHANGED <<stock_quantity, is_active, current_price, carts, cart_items,
                   orders, tracked, calls, category_id>>

\* CategoryService.activate_category / deactivate_category
set_category_active(category, active) ==
    LET err == IF category \notin DOMAIN categories THEN "NotFound" ELSE "ok" IN
    /\ categories' = IF err = "ok"
                     THEN [categories EXCEPT ![category].is_active = active]
                     ELSE categories
    /\ result' = Result(IF active THEN "activate_category" ELSE "deactivate_category",
                        err)
    /\ UNCHANGED <<stock_quantity, is_active, current_price, carts, cart_items,
                   orders, tracked, calls, category_id>>

\* CategoryService.delete_category. The delete of the row sets the parent_id
\* of its children to null (the relationship has no delete cascade); the same
\* for the category_id of its products, which is NOT NULL, so the delete of a
\* category with products fails in the database.
delete_category(category, force) ==
    LET has_products == \E p \in Products : category_id[p] = category
        err == IF category \notin DOMAIN categories THEN "NotFound"
               ELSE IF ~force /\ get_subcategories(category, TRUE) # {}
                    THEN "BadRequest"
               ELSE IF ~force /\ has_products THEN "BadRequest"
               ELSE IF has_products THEN "IntegrityError"
               ELSE "ok"
    IN
    /\ categories' =
          IF err # "ok" THEN categories
          ELSE [c \in DOMAIN categories \ {category} |->
                   IF categories[c].parent_id = category
                   THEN [categories[c] EXCEPT !.parent_id = NoParent]
                   ELSE categories[c]]
    /\ result' = Result("delete_category", err)
    /\ UNCHANGED <<stock_quantity, is_active, current_price, carts, cart_items,
                   orders, tracked, calls, category_id>>

\* ProductService.update_product with a category_id: only an active product is
\* updated; the category is an existing one
update_product_category(product_id, category) ==
    LET err == IF ~is_active[product_id] THEN "BadRequest" ELSE "ok" IN
    /\ category \in DOMAIN categories
    /\ category_id' = IF err = "ok"
                      THEN [category_id EXCEPT ![product_id] = category]
                      ELSE category_id
    /\ result' = Result("update_product", err)
    /\ UNCHANGED <<stock_quantity, is_active, current_price, carts, cart_items,
                   orders, tracked, calls, categories>>

\* ------------------------------------------------- specification: the carts
CartRequesters == {"u1", "u2"}

\* the carts hold the first product, in every quantity
CartNext ==
    \/ get_or_create_user_cart("u1")
    \/ get_or_create_session_cart("s1")
    \/ \E c \in CartIds, q \in 1..MaxQty : add_item_to_cart(c, "p1", q)
    \/ \E i \in ItemIds, q \in 1..MaxQty : update_cart_item_quantity(i, q, "u1")
    \/ \E i \in ItemIds, u \in CartRequesters : remove_item_from_cart(i, u)
    \/ \E c \in CartIds : remove_product_from_cart(c, "p1", "u1")
    \/ \E c \in CartIds : clear_cart(c, "u1")
    \/ \E c \in CartIds : merge_session_cart_to_user("u1", c)
    \/ \E c \in CartIds : deactivate_cart(c, "u1")

SpecCart == InitWith({"add_item_to_cart"}) /\ [][CartNext]_vars

\* C9: a cart holds at most one item row per product after any sequence of
\* add, update, remove and merge calls, and adding q2 of a product the cart
\* holds with quantity q1 leaves the one row with quantity q1 + q2.
OneRowPerProduct ==
    \A c \in CartIds, p \in Products : Len(cart_items[c][p]) <= 1

AddToExistingSums ==
    \A c \in CartIds, p \in Products, q \in 1..MaxQty :
        (/\ add_item_to_cart(c, p, q)
         /\ result'.err = "ok"
         /\ cart_items[c][p] # <<>>)
        => /\ Len(cart_items'[c][p]) = 1
           /\ cart_items'[c][p][1].quantity = cart_items[c][p][1].quantity + q

C9_OneRowPerProduct == [][OneRowPerProduct' /\ AddToExistingSums]_vars

C9_Witness ==
    /\ result.op = "add_item_to_cart"
    /\ result.err = "ok"
    /\ result.branch = "incremented"
    /\ \E c \in CartIds, p \in Products :
          /\ Len(cart_items[c][p]) = 1
          /\ cart_items[c][p][1].quantity = 2

\* ------------------------------------------- specification: the stock ledger
LedgerQuantities == (0 - MaxQty)..(MaxStock + 1)

LedgerNext ==
    \/ \E p \in ProductIds, q \in LedgerQuantities, op \in Operations :
          repository_update_stock(p, q, op)
    \/ \E b \in BOOLEAN : set_product_active("p2", b)

SpecLedger == InitWith({"repository_update_stock"}) /\ [][LedgerNext]_vars

\* C8: the ledger's update_stock sets the product's stock to stock+q for add,
\* to max(0, stock-q) for subtract and to max(0, q) for set; no other product
\* changes; for a product id that does not resolve it fails (returns None) and
\* no stock changes.
LedgerContract(p, q, op) ==
    IF p \in Products
    THEN /\ result'.err = "ok"
         /\ op = "add" => stock_quantity'[p] = stock_quantity[p] + q
         /\ op = "subtract" =>
               /\ stock_quantity'[p] = Max(0, stock_quantity[p] - q)
               /\ stock_quantity'[p] >= 0
         /\ op = "set" => stock_quantity'[p] = Max(0, q)
         /\ \A other \in Products \ {p} :
               stock_quantity'[other] = stock_quantity[other]
    ELSE /\ result'.err = "None"
         /\ stock_quantity' = stock_quantity

C8_LedgerContract ==
    [][\A p \in ProductIds, q \in LedgerQuantities, op \in Operations :
          repository_update_stock(p, q, op) => LedgerContract(p, q, op)]_vars

C8_Witness ==
    /\ result.op = "repository_update_stock"
    /\ result.err = "ok"
    /\ result.branch = "subtract"
    /\ stock_quantity["p1"] = 0
    /\ stock_quantity["p2"] = MaxStock + 1

\* -------------------------------------------- specification: adding to a cart
AddItemNext ==
    \/ get_or_create_user_cart("u1")
    \/ \E c \in CartIds, p \in ProductIds, q \in 0..MaxQty : add_item_to_cart(c, p, q)
    \/ \E p \in Products : service_update_stock(p, 1, "subtract")
    \/ \E b \in BOOLEAN : set_product_active("p2", b)
    \/ \E price \in Prices : update_product_price("p1", price)

SpecAddItem == InitWith({"add_item_to_cart"}) /\ [][AddItemNext]_vars

\* C10: add_item_to_cart succeeds only if quantity > 0, the product exists and
\* is active and its stock is at least the quantity already in the cart plus
\* the added quantity; otherwise it fails with BadRequest and the cart's items
\* are unchanged.  A new item takes the product's current_price, an existing
\* item keeps its unit_price, and no stock is changed.
held_quantity(c, p) ==
    IF p \in Products /\ cart_items[c][p] # <<>> THEN cart_items[c][p][1].quantity ELSE 0

add_allowed(c, p, q) ==
    /\ q > 0
    /\ p \in Products
    /\ is_active[p]
    /\ stock_quantity[p] >= held_quantity(c, p) + q

AddItemContract(c, p, q) ==
    /\ result'.err = "ok" <=> add_allowed(c, p, q)
    /\ ~add_allowed(c, p, q) =>
          /\ result'.err = "BadRequest"
          /\ cart_items' = cart_items
    /\ add_allowed(c, p, q) /\ held_quantity(c, p) = 0 =>
          cart_items'[c][p] = <<Row(q, current_price[p])>>
    /\ add_allowed(c, p, q) /\ held_quantity(c, p) > 0 =>
          /\ Len(cart_items'[c][p]) = 1
          /\ cart_items'[c][p][1].unit_price = cart_items[c][p][1].unit_price
    /\ stock_quantity' = stock_quantity

C10_AddItemContract ==
    [][\A c \in CartIds, p \in ProductIds, q \in 0..MaxQty :
          (c \in DOMAIN carts /\ add_item_to_cart(c, p, q))
          => AddItemContract(c, p, q)]_vars

C10_Witness ==
    /\ result.op = "add_item_to_cart"
    /\ result.err = "ok"
    /\ result.branch = "incremented"
    /\ \E c \in DOMAIN carts :
          /\ cart_items[c]["p1"] # <<>>
          /\ cart_items[c]["p1"][1].quantity = 2
          /\ cart_items[c]["p1"][1].unit_price # current_price["p1"]

\* ------------------------------------------------ specification: the checkout
CheckoutNext ==
    \/ get_or_create_user_cart("u1")
    \/ \E c \in CartIds, p \in Products, q \in 1..MaxQty : add_item_to_cart(c, p, q)
    \/ \E p \in Products : service_update_stock(p, 1, "subtract")
    \/ \E b \in BOOLEAN : set_product_active("p2", b)
    \/ \E price \in Prices : update_product_price("p1", price)
    \/ \E c \in CartIds, u \in Customers : create_order_from_cart(c, u)

SpecCheckout == InitWith({"create_order_from_cart"}) /\ [][CheckoutNext]_vars

\* C1: create_order_from_cart that fails a precondition (empty cart, cart of
\* another user, an item whose product is inactive, an item whose quantity
\* exceeds the product's stock) raises an error, creates no order and no order
\* item, and leaves every product's stock unchanged.
checkout_must_fail(c, u) ==
    \/ \A p \in Products : cart_items[c][p] = <<>>
    \/ carts[c].user_id # u
    \/ \E p \in Products : \E i \in DOMAIN cart_items[c][p] :
          \/ ~is_active[p]
          \/ cart_items[c][p][i].quantity > stock_quantity[p]

C1_FailedCheckoutChangesNothing ==
    [][\A c \in CartIds, u \in Customers :
          (c \in DOMAIN carts /\ create_order_from_cart(c, u) /\ checkout_must_fail(c, u))
          => /\ result'.err \in {"BadRequest", "Forbidden"}
             /\ orders' = orders
             /\ stock_quantity' = stock_quantity]_vars

C1_Witness ==
    /\ result.op = "create_order_from_cart"
    /\ result.err = "BadRequest"
    /\ orders = <<>>
    /\ \E c \in DOMAIN carts :
          /\ cart_items[c]["p1"] # <<>>
          /\ cart_items[c]["p2"] # <<>>
          /\ cart_items[c]["p1"][1].quantity <= stock_quantity["p1"]
          /\ cart_items[c]["p2"][1].quantity > stock_quantity["p2"]
          /\ is_active["p1"] /\ is_active["p2"]

\* C2: a successful create_order_from_cart creates exactly one order, PENDING
\* with payment PENDING, holding one order item per cart item with the item's
\* product, quantity and cart unit price, and lowers each ordered product's
\* stock by exactly the item's quantity; the cart is left as it was (active).
C2_SuccessfulCheckout ==
    [][\A c \in CartIds, u \in Customers :
          (c \in DOMAIN carts /\ create_order_from_cart(c, u) /\ result'.err = "ok")
          => /\ Len(orders') = Len(orders) + 1
             /\ \A o \in DOMAIN orders : orders'[o] = orders[o]
             /\ LET order == orders'[Len(orders')] IN
                /\ order.user_id = u
                /\ order.status = "pending"
                /\ order.payment_status = "pending"
                /\ \A p \in Products :
                      /\ Len(order.items[p]) = Len(cart_items[c][p])
                      /\ \A i \in DOMAIN cart_items[c][p] :
                            /\ order.items[p][i].quantity = cart_items[c][p][i].quantity
                            /\ order.items[p][i].unit_price = cart_items[c][p][i].unit_price
                      /\ stock_quantity'[p] =
                            stock_quantity[p] - quantity_of(cart_items[c][p])
             /\ carts' = carts
             /\ cart_items' = cart_items]_vars

C2_Witness ==
    /\ result.op = "create_order_from_cart"
    /\ result.err = "ok"
    /\ Len(orders) = 1
    /\ orders[1].items["p1"] # <<>>
    /\ orders[1].items["p1"][1].quantity = 2
    /\ orders[1].items["p1"][1].unit_price # current_price["p1"]
    /\ orders[1].items["p2"] # <<>>
    /\ stock_quantity["p1"] = 0
    /\ \E c \in DOMAIN carts : carts[c].is_active /\ cart_items[c] = orders[1].items

\* the sum of unit_price x quantity over the first n rows
RECURSIVE RowsSum(_, _)
RowsSum(rows, n) ==
    IF n = 0 THEN 0
    ELSE rows[n].unit_price * PriceUnit * rows[n].quantity + RowsSum(rows, n - 1)

Item(product_id, quantity) == [product_id |-> product_id, quantity |-> quantity]

\* the item lists of the direct orders: one line, an unknown product
DirectItemLists ==
    { <<Item("p1", 1)>>, <<Item(UnknownProduct, 1)>> }

OrdersNext ==
    \/ \E items \in DirectItemLists : create_order_direct("u1", items)
    \/ \E o \in OrderIds, s \in OrderStatus, u \in {"admin", "u1"} :
          update_order_status(o, s, u)
    \/ \E o \in OrderIds, s \in {"paid", "failed"}, u \in {"admin", "u2", None} :
          update_payment_status(o, s, u)
    \/ \E o \in OrderIds, u \in Requesters : cancel_order(o, u)
    \/ \E o \in OrderIds : update_order(o, "refunded")

SpecOrders == InitWith({"update_order_status"}) /\ [][OrdersNext]_vars

\* C3: for a privileged actor update_order_status succeeds exactly for
\* PENDING->CONFIRMED, PENDING->CANCELLED, CONFIRMED->PROCESSING,
\* CONFIRMED->CANCELLED, PROCESSING->SHIPPED, PROCESSING->CANCELLED and
\* SHIPPED->DELIVERED; every other pair, a status to itself included, fails
\* with BadRequest and leaves status, shipped_at and delivered_at unchanged.
ClaimedTransitions ==
    { <<"pending", "confirmed">>, <<"pending", "cancelled">>,
      <<"confirmed", "processing">>, <<"confirmed", "cancelled">>,
      <<"processing", "shipped">>, <<"processing", "cancelled">>,
      <<"shipped", "delivered">> }

C3_StatusTransitions ==
    [][\A o \in OrderIds, s \in OrderStatus, u \in Superusers :
          (o \in DOMAIN orders /\ update_order_status(o, s, u))
          => IF <<orders[o].status, s>> \in ClaimedTransitions
             THEN /\ result'.err = "ok"
                  /\ orders'[o].status = s
             ELSE /\ result'.err = "BadRequest"
                  /\ orders'[o].status = orders[o].status
                  /\ orders'[o].shipped_at = orders[o].shipped_at
                  /\ orders'[o].delivered_at = orders[o].delivered_at]_vars

C3_Witness ==
    /\ result.op = "update_order_status"
    /\ result.err = "BadRequest"
    /\ \E o \in DOMAIN orders :
          /\ orders[o].status = "delivered"
          /\ orders[o].shipped_at = Now
          /\ orders[o].delivered_at = Now

\* C4: DELIVERED, CANCELLED and REFUNDED are terminal: once an order's status
\* is one of them, no call of update_order_status, update_payment_status or
\* cancel_order, by any actor and with any argument, changes the status.
TerminalStatuses == {"delivered", "cancelled", "refunded"}

lifecycle_call ==
    \/ \E o \in OrderIds, s \in OrderStatus, u \in Users : update_order_status(o, s, u)
    \/ \E o \in OrderIds, s \in PaymentStatus, u \in Requesters :
          update_payment_status(o, s, u)
    \/ \E o \in OrderIds, u \in Requesters : cancel_order(o, u)

C4_TerminalStatuses ==
    [][lifecycle_call =>
          \A o \in DOMAIN orders :
              orders[o].status \in TerminalStatuses
              => orders'[o].status = orders[o].status]_vars

\* ------------------------------------------ specification: the cancellations
\* a direct order with the same product on two lines
TwoLines == <<Item("p1", 1), Item("p1", 1)>>

CancelNext ==
    \/ get_or_create_user_cart("u1")
    \/ \E p \in Products : add_item_to_cart(1, p, MaxQty)
    \/ create_order_from_cart(1, "u1")
    \/ create_order_direct("u1", TwoLines)
    \/ \E o \in OrderIds : update_payment_status(o, "paid", None)
    \/ \E o \in OrderIds, s \in {"processing", "shipped", "delivered"} :
          update_order_status(o, s, "admin")
    \/ \E o \in OrderIds, u \in Requesters : cancel_order(o, u)

SpecCancel == InitWith({"cancel_order"}) /\ [][CancelNext]_vars

\* C5: cancel_order on a CONFIRMED or PROCESSING order raises the stock of
\* every line item's product by the item quantity and sets the status to
\* CANCELLED; on a PENDING order it sets the status to CANCELLED and changes
\* no stock.
may_cancel(o, u) ==
    u = None \/ u = orders[o].user_id \/ u \in Superusers

C5_CancelRestoresStock ==
    [][\A o \in OrderIds, u \in Requesters :
          (/\ o \in DOMAIN orders
           /\ cancel_order(o, u)
           /\ may_cancel(o, u)
           /\ orders[o].status \in {"pending", "confirmed", "processing"})
          => /\ result'.err = "ok"
             /\ orders'[o].status = "cancelled"
             /\ \A p \in Products :
                   stock_quantity'[p] =
                      IF orders[o].status = "pending" THEN stock_quantity[p]
                      ELSE stock_quantity[p] + quantity_of(orders[o].items[p])]_vars

C5_Witness ==
    /\ result.op = "cancel_order"
    /\ result.err = "ok"
    /\ \E o \in DOMAIN orders :
          /\ orders[o].status = "cancelled"
          /\ orders[o].payment_status = "paid"
          /\ orders[o].shipped_at = None
          /\ orders[o].items["p2"] # <<>>
          /\ orders[o].items["p2"][1].quantity = MaxQty
          /\ stock_quantity["p2"] = MaxStock

\* C6: cancel_order is rejected with Forbidden when the actor is neither the
\* order's owner nor a superuser, and with BadRequest when the status is
\* SHIPPED, DELIVERED or CANCELLED; a rejected cancel changes neither the
\* order's status, its notes, nor any stock.
C6_RejectedCancel ==
    [][\A o \in OrderIds, u \in Requesters :
          (o \in DOMAIN orders /\ cancel_order(o, u))
          => /\ ~may_cancel(o, u) => result'.err = "Forbidden"
             /\ (may_cancel(o, u)
                 /\ orders[o].status \in {"shipped", "delivered", "cancelled"})
                => result'.err = "BadRequest"
             /\ result'.err # "ok" =>
                   /\ orders'[o].status = orders[o].status
                   /\ orders'[o].notes = orders[o].notes
                   /\ stock_quantity' = stock_quantity]_vars

C6_Witness ==
    /\ result.op = "cancel_order"
    /\ result.err = "Forbidden"
    /\ \E o \in DOMAIN orders :
          /\ orders[o].status = "processing"
          /\ orders[o].notes = 0
          /\ orders[o].items["p1"] # <<>>

\* ------------------------------------------- specification: the stock level
StockQuantities == (0 - 1)..1

StockNext ==
    \/ \E p \in ProductIds, q \in StockQuantities, op \in Operations :
          service_update_stock(p, q, op)
    \/ get_or_create_user_cart("u1")
    \/ \E p \in Products : add_item_to_cart(1, p, 1)
    \/ create_order_from_cart(1, "u1")
    \/ \E o \in OrderIds : update_payment_status(o, "paid", None)
    \/ \E o \in OrderIds : cancel_order(o, "u1")

SpecStock == InitWith({}) /\ [][StockNext]_vars

\* C7: in every reachable state, after any sequence of stock-ledger operations
\* (update_stock with add, subtract or set and any integer quantity the
\* StockUpdate schema accepts), order creations and order cancellations, every
\* product's stock_quantity is >= 0.
C7_StockNonNegative == \A p \in Products : stock_quantity[p] >= 0

\* ------------------------------------------------ specification: the merges
\* the first product goes into every cart, the second one into session carts
MergeNext ==
    \/ get_or_create_user_cart("u1")
    \/ get_or_create_session_cart("s1")
    \/ \E c \in CartIds : add_item_to_cart(c, "p1", 1)
    \/ \E c \in DOMAIN carts :
          carts[c].user_id = None /\ add_item_to_cart(c, "p2", MaxQty)
    \/ \E price \in Prices : update_product_price("p1", price)
    \/ \E c \in CartIds : merge_session_cart_to_user("u1", c)
    \/ \E c \in CartIds, done \in SUBSET Products :
          merge_session_cart_fails("u1", c, done)

SpecMerge == InitWith({"merge_session_cart_to_user"}) /\ [][MergeNext]_vars

\* C11: after a successful merge of session cart S into user cart U (S a cart
\* other than U), for every product the quantity in U is its previous quantity
\* in U plus its quantity in S, on one row; an item U already held keeps U's
\* unit_price, a new item takes S's unit_price; S is inactive and U active.
MergeContract(U, S) ==
    /\ \A p \in Products :
          /\ Len(cart_items'[U][p]) <= 1
          /\ quantity_of(cart_items'[U][p]) =
                quantity_of(cart_items[U][p]) + quantity_of(cart_items[S][p])
          /\ cart_items[U][p] # <<>> =>
                cart_items'[U][p][1].unit_price = cart_items[U][p][1].unit_price
          /\ (cart_items[U][p] = <<>> /\ cart_items[S][p] # <<>>) =>
                cart_items'[U][p][1].unit_price = cart_items[S][p][1].unit_price
    /\ ~carts'[S].is_active
    /\ carts'[U].is_active

C11_MergeSums ==
    [][\A c \in CartIds :
          (/\ merge_session_cart_to_user("u1", c)
           /\ c \in DOMAIN carts
           /\ c # user_cart_id("u1"))
          => MergeContract(user_cart_id("u1"), c)]_vars

C11_Witness ==
    /\ result.op = "merge_session_cart_to_user"
    /\ result.err = "ok"
    /\ \E U \in DOMAIN carts, S \in DOMAIN carts :
          /\ carts[U].user_id = "u1" /\ carts[U].is_active
          /\ carts[S].session_id = "s1" /\ ~carts[S].is_active
          /\ cart_items[S]["p1"] # <<>> /\ cart_items[S]["p2"] # <<>>
          /\ cart_items[U]["p1"] # <<>> /\ cart_items[U]["p2"] # <<>>
          /\ cart_items[U]["p1"][1].quantity = cart_items[S]["p1"][1].quantity + 1
          /\ cart_items[U]["p1"][1].unit_price # cart_items[S]["p1"][1].unit_price
          /\ cart_items[U]["p2"] = cart_items[S]["p2"]

\* C12: the merge is all-or-nothing: a merge that fails leaves the user cart's
\* items as before the call and the session cart as active as it was, and no
\* merge step, failed or successful, leaves only some of the session cart's
\* items in the user cart, or the items added with the session cart active.
merge_attempt(c) ==
    \/ merge_session_cart_to_user("u1", c)
    \/ \E done \in SUBSET Products : merge_session_cart_fails("u1", c, done)

NothingMerged(c) ==
    /\ cart_items' = cart_items
    /\ \A x \in DOMAIN carts : carts'[x] = carts[x]

AllMerged(U, c) ==
    /\ \A p \in Products :
          quantity_of(cart_items'[U][p]) =
             quantity_of(cart_items[U][p]) + quantity_of(cart_items[c][p])
    /\ c \in DOMAIN carts => ~carts'[c].is_active

C12_MergeAllOrNothing ==
    [][\A c \in CartIds :
          /\ merge_attempt(c) /\ result'.err # "ok" => NothingMerged(c)
          /\ (merge_attempt(c) /\ c # user_cart_id("u1"))
             => NothingMerged(c) \/ AllMerged(user_cart_id("u1"), c)]_vars

C12_Witness ==
    /\ result.op = "merge_session_cart_to_user"
    /\ result.err = "BadRequest"
    /\ \E U \in DOMAIN carts, S \in DOMAIN carts :
          /\ carts[U].user_id = "u1" /\ carts[U].is_active
          /\ carts[S].session_id = "s1" /\ carts[S].is_active
          /\ cart_items[S]["p1"] # <<>> /\ cart_items[S]["p2"] # <<>>
          /\ cart_items[U]["p1"] # <<>> /\ cart_items[U]["p2"] = <<>>

\* ------------------------------- specification: concurrent get_or_create calls
CartRaceNext ==
    \/ \E r \in CallIds : get_or_create_lookup(r, "u1", None)
    \/ \E r \in CallIds, s \in Sessions : get_or_create_lookup(r, None, s)
    \/ \E r \in CallIds : get_or_create_insert(r)
    \/ \E c \in CartIds, q \in 1..MaxQty : add_item_to_cart(c, "p1", q)
    \/ \E c \in CartIds : deactivate_cart(c, None)

SpecCartRace == InitWith({"get_or_create_cart"}) /\ [][CartRaceNext]_vars

\* C13: in every reachable state there is at most one active cart per user_id
\* and at most one active cart per session_id, also when several get_or_create
\* calls for the same owner key run concurrently.
C13_OneActiveCartPerOwner ==
    /\ \A u \in Users : Cardinality(get_active_cart_by_user(u)) <= 1
    /\ \A s \in Sessions : Cardinality(active_cart_by_session(s)) <= 1

\* -------------------------------------------- specification: the categories
CategoriesNext ==
    \/ \E parent \in CategoryIds \cup {NoParent} : create_category(parent)
    \/ \E c \in CategoryIds, parent \in CategoryIds \cup {NoParent} :
          update_category(c, parent)
    \/ \E c \in CategoryIds, parent \in CategoryIds \cup {NoParent} :
          update_category_endpoint(c, parent)
    \/ \E c \in CategoryIds, b \in BOOLEAN : set_category_active(c, b)
    \/ \E c \in CategoryIds, force \in BOOLEAN : delete_category(c, force)

SpecCategories == InitWith({"update_category"}) /\ [][CategoriesNext]_vars

\* the same without the endpoint that bypasses the service method
ServiceCategoriesNext ==
    \/ \E parent \in CategoryIds \cup {NoParent} : create_category(parent)
    \/ \E c \in CategoryIds, parent \in CategoryIds \cup {NoParent} :
          update_category(c, parent)
    \/ \E c \in CategoryIds, b \in BOOLEAN : set_category_active(c, b)
    \/ \E c \in CategoryIds, force \in BOOLEAN : delete_category(c, force)

SpecServiceCategories ==
    InitWith({"update_category"}) /\ [][ServiceCategoriesNext]_vars

\* C14: starting from an acyclic category graph, after any sequence of
\* create_category, update_category and delete_category calls, following
\* parent_id from any category ends at a null parent within |categories|
\* steps.
RECURSIVE ends_at_null(_, _)
ends_at_null(c, steps) ==
    IF c = NoParent THEN TRUE
    ELSE IF steps = 0 \/ c \notin DOMAIN categories THEN FALSE
    ELSE ends_at_null(categories[c].parent_id, steps - 1)

C14_CategoriesAcyclic ==
    \A c \in DOMAIN categories : ends_at_null(c, Cardinality(DOMAIN categories))

\* ------------------------------------------------ specification: the payments
\* the order status is moved by update_order_status (never to CONFIRMED, which
\* only a payment reaches here) and by the generic update
PaymentNext ==
    \/ create_order_direct("u1", <<Item("p1", 1)>>)
    \/ \E o \in OrderIds, s \in OrderStatus \ {"confirmed"} :
          update_order_status(o, s, "admin")
    \/ \E o \in OrderIds : update_order(o, "refunded")
    \/ \E o \in OrderIds : update_order(o, "pending")
    \/ \E o \in OrderIds, s \in PaymentStatus, u \in {"admin", "u1", None} :
          update_payment_status(o, s, u)

SpecPayment == InitWith({"update_payment_status"}) /\ [][PaymentNext]_vars

\* C15: update_payment_status sets payment_status to the requested value and
\* changes the order's status in exactly one case: new payment status PAID
\* with order status PENDING makes the status CONFIRMED; for every other
\* combination the status is unchanged, and no stock is changed.
C15_PaymentStatus ==
    [][\A o \in OrderIds, s \in PaymentStatus, u \in {"admin", "u1", None} :
          (o \in DOMAIN orders /\ update_payment_status(o, s, u))
          => /\ result'.err = "ok" <=> u # "u1"
             /\ result'.err = "ok" => orders'[o].payment_status = s
             /\ result'.err # "ok" => orders' = orders
             /\ orders'[o].status =
                   IF result'.err = "ok" /\ s = "paid" /\ orders[o].status = "pending"
                   THEN "confirmed" ELSE orders[o].status
             /\ \A other \in DOMAIN orders \ {o} : orders'[other] = orders[other]
             /\ stock_quantity' = stock_quantity]_vars

C15_Witness ==
    /\ result.op = "update_payment_status"
    /\ result.err = "ok"
    /\ \E o \in DOMAIN orders :
          /\ orders[o].status = "confirmed"
          /\ orders[o].payment_status = "paid"

\* ------------------------------------------- specification: direct orders
OrderLists ==
    {<<Item(p, q)>> : p \in ProductIds, q \in 1..MaxQty}
        \cup {<<Item("p1", 1), Item("p2", 1)>>}

DirectNext ==
    \/ \E price \in Prices : update_product_price("p1", price)
    \/ \E b \in BOOLEAN : set_product_active("p2", b)
    \/ \E p \in Products : service_update_stock(p, 1, "subtract")
    \/ \E l \in OrderLists : create_order_direct("u1", l)

SpecDirect == InitWith({"create_order_direct"}) /\ [][DirectNext]_vars

\* an item create_order_from_cart rejects too: product missing or inactive, or
\* stock below the quantity
item_rejected(it) ==
    \/ it.product_id \notin Products
    \/ ~is_active[it.product_id]
    \/ stock_quantity[it.product_id] < it.quantity

\* C17: create_order_direct records the subtotal, tax_amount, shipping_cost and
\* total_amount that create_order_from_cart records for a cart of the same
\* products and quantities at the current prices, and it fails with BadRequest,
\* creating no order, when an item's product is missing or inactive or has less
\* stock than the quantity.
C17_DirectAsFromCart ==
    [][\A l \in OrderLists :
        create_order_direct("u1", l) =>
            IF \E i \in DOMAIN l : item_rejected(l[i])
            THEN result'.err = "BadRequest" /\ orders' = orders
            ELSE LET o == orders'[Len(orders')]
                     rows == direct_items(l, NoItems)
                     from_cart == NewOrder("u1", rows,
                                      calculate_shipping(total_amount(rows, Products)))
                 IN /\ result'.err = "ok"
                    /\ o.subtotal = from_cart.subtotal
                    /\ o.tax_amount = from_cart.tax_amount
                    /\ o.shipping_cost = from_cart.shipping_cost
                    /\ o.total_amount = from_cart.total_amount]_vars

\* ------------------------------------- specification: orders after creation
AfterCreationNext ==
    \/ get_or_create_user_cart("u1")
    \/ add_item_to_cart(1, "p1", MaxQty)
    \/ clear_cart(1, "u1")
    \/ update_product_price("p1", MaxPrice)
    \/ service_update_stock("p1", 1, "subtract")
    \/ create_order_from_cart(1, "u1")
    \/ create_order_direct("u1", <<Item("p1", 1)>>)
    \/ \E o \in OrderIds : update_order_status(o, "confirmed", "admin")
    \/ \E o \in OrderIds : update_payment_status(o, "paid", None)
    \/ \E o \in OrderIds : update_order(o, "pending")
    \/ \E o \in OrderIds : cancel_order(o, "u1")

SpecAfterCreation == InitWith({}) /\ [][AfterCreationNext]_vars

\* the amounts recorded on an order and on its items
OrderAmounts(o) ==
    <<o.subtotal, o.tax_amount, o.shipping_cost, o.discount_amount, o.total_amount,
      [p \in Products |-> [i \in DOMAIN o.items[p] |-> o.items[p][i].unit_price]],
      o.total_price>>

\* C18: an order that exists keeps its subtotal, tax_amount, shipping_cost,
\* discount_amount and total_amount and its items' unit_price and total_price
\* through every later operation: price changes, stock updates, cart changes,
\* update_order_status, update_payment_status, cancel_order.
C18_OrderAmountsFrozen ==
    [][\A o \in DOMAIN orders :
          /\ o \in DOMAIN orders'
          /\ OrderAmounts(orders'[o]) = OrderAmounts(orders[o])]_vars

\* a paid and then cancelled order whose item price is no longer the product's
C18_Witness ==
    /\ Len(orders) = 1
    /\ orders[1].status = "cancelled"
    /\ orders[1].payment_status = "paid"
    /\ orders[1].items["p1"] # <<>>
    /\ orders[1].items["p1"][1].unit_price # current_price["p1"]
    /\ orders[1].total_price["p1"][1]
           = amount(orders[1].items["p1"][1].unit_price) * orders[1].items["p1"][1].quantity
    /\ orders[1].subtotal = orders[1].total_price["p1"][1]
    /\ stock_quantity["p1"] < MaxStock
    /\ \E c \in DOMAIN carts : cart_items[c]["p1"] = <<>>

\* ----------------------------------------- specification: cart validation
ValidateNext ==
    \/ get_or_create_user_cart("u1")
    \/ \E p \in Products : add_item_to_cart(1, p, MaxQty)
    \/ \E b \in BOOLEAN : set_product_active("p2", b)
    \/ \E p \in Products : service_update_stock(p, 1, "subtract")
    \/ \E c \in CartIds : validate_cart_stock(c)
    \/ validate_cart_stock_endpoint("u1")

SpecValidate ==
    InitWith({"validate_cart_stock", "validate_cart_stock_endpoint"})
        /\ [][ValidateNext]_vars

\* C19: validate_cart_stock returns one entry for every item of the cart, which
\* says whether the item is satisfiable (product active and stock_quantity at
\* least the item quantity) and gives a reason and the available quantity, and
\* the call changes no cart, cart item or product.
C19_ValidateEveryItem ==
    [][\A c \in CartIds :
        validate_cart_stock(c) =>
            /\ \A p \in Products : \A i \in DOMAIN cart_items[c][p] :
                  \E e \in validate_cart_items_stock(c) :
                      /\ e.item_id = <<c, p, i>>
                      /\ "available" \in DOMAIN e
                      /\ e.available = (/\ is_active[p]
                                        /\ stock_quantity[p]
                                             >= cart_items[c][p][i].quantity)
                      /\ "reason" \in DOMAIN e
                      /\ "available_quantity" \in DOMAIN e
            /\ UNCHANGED <<carts, cart_items, stock_quantity, is_active,
                           current_price>>]_vars

\* ------------------------------------------- specification: cart ownership
OwnershipNext ==
    \/ \E u \in Customers : get_or_create_user_cart(u)
    \/ get_or_create_session_cart("s1")
    \/ \E c \in CartIds : add_item_to_cart(c, "p1", 1)
    \/ \E i \in ItemIds, u \in Customers : update_cart_item_quantity(i, MaxQty, u)
    \/ \E i \in ItemIds, u \in Customers : remove_item_from_cart(i, u)
    \/ \E c \in CartIds, u \in Customers : remove_product_from_cart(c, "p1", u)
    \/ \E c \in CartIds, u \in Customers : clear_cart(c, u)

SpecOwnership ==
    InitWith({"update_cart_item_quantity", "remove_item_from_cart",
              "remove_product_from_cart", "clear_cart"})
        /\ [][OwnershipNext]_vars

\* the requester u is not the owner of the existing cart c
not_owner(c, u) == c \in DOMAIN carts /\ carts[c].user_id # u

Refused(c) == result'.err = "Forbidden" /\ cart_items'[c] = cart_items[c]

\* C20: with a user requester, update_cart_item_quantity, remove_item_from_cart,
\* remove_product_from_cart and clear_cart on a cart whose user_id is not the
\* requester's id (a session cart, whose user_id is null, included) fail with
\* Forbidden and leave the cart's items unchanged.
C20_OnlyOwnerChangesCart ==
    [][\A u \in Customers :
        /\ \A i \in ItemIds :
              (/\ update_cart_item_quantity(i, MaxQty, u)
               /\ item_exists(i) /\ not_owner(i[1], u)) => Refused(i[1])
        /\ \A i \in ItemIds :
              (/\ remove_item_from_cart(i, u)
               /\ item_exists(i) /\ not_owner(i[1], u)) => Refused(i[1])
        /\ \A c \in CartIds :
              (remove_product_from_cart(c, "p1", u) /\ not_owner(c, u)) => Refused(c)
        /\ \A c \in CartIds :
              (clear_cart(c, u) /\ not_owner(c, u)) => Refused(c)]_vars

\* --------------------------------------- specification: deleting categories
DeleteCategoryNext ==
    \/ \E parent \in CategoryIds \cup {NoParent} : create_category(parent)
    \/ \E c \in CategoryIds, b \in BOOLEAN : set_category_active(c, b)
    \/ \E p \in Products, c \in CategoryIds : update_product_category(p, c)
    \/ \E c \in CategoryIds, force \in BOOLEAN : delete_category(c, force)

SpecDeleteCategory == InitWith({"delete_category"}) /\ [][DeleteCategoryNext]_vars

\* the category has a direct subcategory, active or not, or a product
has_dependents(c) ==
    \/ \E d \in DOMAIN categories : categories[d].parent_id = c
    \/ \E p \in Products : category_id[p] = c

\* C21: delete_category without force on a category that has a direct
\* subcategory (active or inactive) or a product fails with BadRequest and
\* leaves the category in place; with force the category is deleted and its
\* subcategories and products are neither deleted nor re-parented.
C21_DeleteCategory ==
    [][\A c \in CategoryIds, force \in BOOLEAN :
        (delete_category(c, force) /\ c \in DOMAIN categories) =>
            IF force
            THEN /\ c \notin DOMAIN categories'
                 /\ \A d \in DOMAIN categories \ {c} :
                       d \in DOMAIN categories' /\ categories'[d] = categories[d]
                 /\ category_id' = category_id
            ELSE has_dependents(c) =>
                    result'.err = "BadRequest" /\ categories' = categories]_vars

\* ------------------------------------- specification: concurrent checkouts
\* the (product, quantity) lines of the items of the products ps, in the order
\* a loop over the items visits them
RECURSIVE lines_of(_, _)
lines_of(items, ps) ==
    IF ps = {} THEN <<>>
    ELSE LET p == CHOOSE x \in ps : TRUE IN
         [i \in DOMAIN items[p] |-> Item(p, items[p][i].quantity)]
             \o lines_of(items, ps \ {p})

\* the state of a request inside OrderService: the service call, where it
\* stands, the cart or order it works on, the items it holds, the ledger calls
\* still to make, and the stock value the current ledger call has read
OrderCall(op, pc, id, user, items, todo, operation, seen) ==
    [op |-> op, pc |-> pc, id |-> id, user |-> user, items |-> items,
     todo |-> todo, operation |-> operation, seen |-> seen]

\* create_order_from_cart of request r, up to the end of its validations: the
\* cart items and the stock are read, nothing is locked
create_order_check(r, cart_id, user) ==
    LET err == create_order_error(cart_id, user) IN
    /\ calls[r] = Idle
    /\ cart_id \in DOMAIN carts
    /\ calls' = IF err # "ok" THEN calls
                ELSE [calls EXCEPT ![r] =
                        OrderCall("create_order_from_cart", "checked", cart_id, user,
                                  cart_items[cart_id], <<>>, "subtract", 0)]
    /\ result' = IF err # "ok" THEN Result("create_order_from_cart", err)
                 ELSE Untracked
    /\ UNCHANGED <<stock_quantity, is_active, current_price, carts, cart_items,
                   orders, tracked, categories, category_id>>

\* ... then the order and its items are inserted and committed; the stock is
\* not looked at again
create_order_commit(r) ==
    /\ calls[r].op = "create_order_from_cart"
    /\ calls[r].pc = "checked"
    /\ Len(orders) < MaxCalls
    /\ orders' = Append(orders,
                        NewOrder(calls[r].user, calls[r].items,
                                 calculate_shipping(
                                     total_amount(calls[r].items, Products))))
    /\ calls' = [calls EXCEPT ![r].pc = "stock",
                              ![r].todo = lines_of(cart_items[calls[r].id], Products)]
    /\ result' = Untracked
    /\ UNCHANGED <<stock_quantity, is_active, current_price, carts, cart_items,
                   tracked, categories, category_id>>

\* ProductRepository.update_stock inside a request, first half: the product
\* row is read
update_stock_read(r) ==
    /\ calls[r].op \in {"create_order_from_cart", "cancel_order"}
    /\ calls[r].pc = "stock"
    /\ calls[r].todo # <<>>
    /\ calls' = [calls EXCEPT ![r].pc = "write",
                              ![r].seen = stock_quantity[Head(calls[r].todo).product_id]]
    /\ result' = Untracked
    /\ UNCHANGED <<stock_quantity, is_active, current_price, carts, cart_items,
                   orders, tracked, categories, category_id>>

\* ... second half: the new value, computed from the value read, is written
\* and committed
update_stock_write(r) ==
    LET line == Head(calls[r].todo)
        new == update_stock([p \in {line.product_id} |-> calls[r].seen],
                            line.product_id, line.quantity, calls[r].operation)
    IN
    /\ calls[r].op \in {"create_order_from_cart", "cancel_order"}
    /\ calls[r].pc = "write"
    /\ stock_quantity' = [stock_quantity EXCEPT ![line.product_id] =
                              new[line.product_id]]
    /\ InStockRange(stock_quantity')
    /\ calls' = [calls EXCEPT ![r].pc = "stock", ![r].todo = Tail(@)]
    /\ result' = Untracked
    /\ UNCHANGED <<is_active, current_price, carts, cart_items, orders, tracked,
                   categories, category_id>>

\* create_order_from_cart returns after the last ledger call
create_order_return(r) ==
    /\ calls[r].op = "create_order_from_cart"
    /\ calls[r].pc = "stock"
    /\ calls[r].todo = <<>>
    /\ calls' = [calls EXCEPT ![r] = Idle]
    /\ result' = Result("create_order_from_cart", "ok")
    /\ UNCHANGED <<stock_quantity, is_active, current_price, carts, cart_items,
                   orders, tracked, categories, category_id>>

\* every cart asks for all the stock there is
CheckoutRaceNext ==
    \/ \E u \in Customers : get_or_create_user_cart(u)
    \/ \E c \in CartIds : add_item_to_cart(c, "p1", MaxStock)
    \/ \E r \in CallIds, c \in CartIds, u \in Customers : create_order_check(r, c, u)
    \/ \E r \in CallIds : create_order_commit(r)
    \/ \E r \in CallIds : update_stock_read(r)
    \/ \E r \in CallIds : update_stock_write(r)
    \/ \E r \in CallIds : create_order_return(r)

SpecCheckoutRace == InitWith({"create_order_from_cart"}) /\ [][CheckoutRaceNext]_vars

\* C22: two concurrent create_order_from_cart calls whose carts each ask for
\* the last of a product's stock both pass the stock check and both create
\* their order; once they have returned the product's stock_quantity is 0, and
\* it is never negative.
C22_CheckoutRace ==
    /\ stock_quantity["p1"] \in 0..MaxStock
    /\ \A r \in CallIds :
          (calls[r].op = "create_order_from_cart" /\ calls[r].pc # "checked") =>
              \E o \in DOMAIN orders : orders[o].user_id = calls[r].user
    /\ (orders # <<>> /\ \A r \in CallIds : calls[r] = Idle) =>
          stock_quantity["p1"] = 0

\* both orders exist and together hold more than the stock there was
C22_Witness ==
    /\ \A r \in CallIds : calls[r] = Idle
    /\ Len(orders) = 2
    /\ orders[1].user_id # orders[2].user_id
    /\ quantity_of(orders[1].items["p1"]) + quantity_of(orders[2].items["p1"]) > MaxStock
    /\ stock_quantity["p1"] = 0

\* ------------------------------- specification: cart orders and their stock
\* the only stock operations are the creation and the cancellation of orders
RoundTripNext ==
    \/ get_or_create_user_cart("u1")
    \/ \E p \in Products, q \in 1..MaxQty : add_item_to_cart(1, p, q)
    \/ create_order_from_cart(1, "u1")
    \/ \E o \in OrderIds : update_payment_status(o, "paid", None)
    \/ \E o \in OrderIds, s \in {"processing", "shipped", "cancelled"} :
          update_order_status(o, s, "admin")
    \/ \E o \in OrderIds : cancel_order(o, "u1")

SpecRoundTrip == InitWith({"cancel_order"}) /\ [][RoundTripNext]_vars

\* C23: when the orders created by create_order_from_cart are CANCELLED, by
\* cancel_order or by update_order_status, and nothing else wrote the stock,
\* every product's stock_quantity is what it was before the orders were
\* created.
C23_StockRoundTrip ==
    (orders # <<>> /\ \A o \in DOMAIN orders : orders[o].status = "cancelled") =>
        \A p \in Products : stock_quantity[p] = MaxStock

\* C24: with order creation and cancellation as the only stock operations, a
\* cancelled order, created from a cart or directly, leaves no product with
\* more stock than it had before the order was created.
C24_CancelGivesBackOnlyTaken ==
    \A p \in Products : stock_quantity[p] <= MaxStock

\* ----------------------------------- specification: concurrent cancellations
\* cancel_order of request r, up to its decision to restore stock: the order
\* and its status are read, nothing is locked
cancel_order_check(r, order_id, user) ==
    LET err == cancel_order_error(order_id, user) IN
    /\ calls[r] = Idle
    /\ calls' = IF err # "ok" THEN calls
                ELSE [calls EXCEPT ![r] =
                        OrderCall("cancel_order", "stock", order_id, user,
                                  orders[order_id].items,
                                  IF orders[order_id].status \in {"confirmed", "processing"}
                                  THEN lines_of(orders[order_id].items, Products)
                                  ELSE <<>>,
                                  "add", 0)]
    /\ result' = IF err # "ok" THEN Result("cancel_order", err) ELSE Untracked
    /\ UNCHANGED <<stock_quantity, is_active, current_price, carts, cart_items,
                   orders, tracked, categories, category_id>>

\* ... and, after the ledger calls, the update that writes CANCELLED and the
\* note
cancel_order_update(r) ==
    /\ calls[r].op = "cancel_order"
    /\ calls[r].pc = "stock"
    /\ calls[r].todo = <<>>
    /\ orders[calls[r].id].notes < MaxCalls
    /\ orders' = [orders EXCEPT ![calls[r].id].status = "cancelled",
                                ![calls[r].id].notes = @ + 1]
    /\ calls' = [calls EXCEPT ![r] = Idle]
    /\ result' = Result("cancel_order", "ok")
    /\ UNCHANGED <<stock_quantity, is_active, current_price, carts, cart_items,
                   tracked, categories, category_id>>

CancelRaceNext ==
    \/ get_or_create_user_cart("u1")
    \/ \E p \in Products : add_item_to_cart(1, p, 1)
    \/ create_order_from_cart(1, "u1")
    \/ \E o \in OrderIds : update_payment_status(o, "paid", None)
    \/ \E o \in OrderIds : update_order_status(o, "processing", "admin")
    \/ \E r \in CallIds, o \in OrderIds, u \in {"u1", "admin"} :
          cancel_order_check(r, o, u)
    \/ \E r \in CallIds : update_stock_read(r)
    \/ \E r \in CallIds : update_stock_write(r)
    \/ \E r \in CallIds : cancel_order_update(r)

SpecCancelRace == InitWith({"cancel_order"}) /\ [][CancelRaceNext]_vars

\* the units of product p that the orders hold
ordered(p) ==
    IF orders = <<>> THEN 0 ELSE quantity_of(orders[1].items[p])

\* C25: when cancel_order calls on the same CONFIRMED or PROCESSING order
\* interleave, each product's stock_quantity rises by the item quantity once,
\* not twice: it ends no higher than the stock the order left plus the
\* quantity ordered.
C25_RestoredOnce ==
    \A p \in Products :
        stock_quantity[p] <= (MaxStock - ordered(p)) + ordered(p)

\* C26: while no product's stock changes, after any sequence of
\* add_item_to_cart, update_cart_item_quantity and merge operations every cart
\* item's quantity is at most its product's stock_quantity.
C26_QuantityWithinStock ==
    \A c \in CartIds, p \in Products : \A i \in DOMAIN cart_items[c][p] :
        cart_items[c][p][i].quantity <= stock_quantity[p]

\* ------------------------------------------ specification: merge sources
MergeSourceNext ==
    \/ \E u \in Customers : get_or_create_user_cart(u)
    \/ get_or_create_session_cart("s1")
    \/ \E c \in CartIds : add_item_to_cart(c, "p1", 1)
    \/ \E c \in CartIds : merge_session_cart_to_user("u1", c)

SpecMergeSource ==
    InitWith({"merge_session_cart_to_user"}) /\ [][MergeSourceNext]_vars

\* a cart that may be merged into a user's cart: it exists, is active and is
\* owned by a session
valid_source(c) ==
    /\ c \in DOMAIN carts
    /\ carts[c].is_active
    /\ carts[c].user_id = None

\* C27: merge_session_cart_to_user with a source cart that is missing,
\* inactive, owned by a user, or the user's own cart changes no cart's items
\* and no cart's active flag.
C27_MergeOnlyValidSource ==
    [][\A c \in CartIds :
        (merge_session_cart_to_user("u1", c) /\ ~valid_source(c)) =>
            /\ cart_items' = cart_items
            /\ \A d \in DOMAIN carts : carts'[d].is_active = carts[d].is_active]_vars

\* ------------------------------- specification: concurrent category updates
\* CategoryService.update_category of request r, up to the end of its checks
\* (existence, own parent, parent active, cycle walk): rows are read, nothing
\* is locked
update_category_check(r, category, parent_id) ==
    LET err == update_category_error(category, parent_id) IN
    /\ calls[r] = Idle
    /\ calls' = IF err # "ok" THEN calls
                ELSE [calls EXCEPT ![r] =
                        [op |-> "update_category", id |-> category,
                         parent_id |-> parent_id]]
    /\ result' = IF err # "ok" THEN Result("update_category", err) ELSE Untracked
    /\ UNCHANGED <<stock_quantity, is_active, current_price, carts, cart_items,
                   orders, tracked, categories, category_id>>

\* ... then BaseService.update writes the parent_id of the row and commits
update_category_write(r) ==
    /\ calls[r].op = "update_category"
    /\ categories' = [categories EXCEPT ![calls[r].id].parent_id = calls[r].parent_id]
    /\ calls' = [calls EXCEPT ![r] = Idle]
    /\ result' = Result("update_category", "ok")
    /\ UNCHANGED <<stock_quantity, is_active, current_price, carts, cart_items,
                   orders, tracked, category_id>>

\* the categories are created as roots and then given parents
CategoryRaceNext ==
    \/ create_category(NoParent)
    \/ \E r \in CallIds, c \in CategoryIds, parent \in CategoryIds :
          update_category_check(r, c, parent)
    \/ \E r \in CallIds : update_category_write(r)

SpecCategoryRace == InitWith({"update_category"}) /\ [][CategoryRaceNext]_vars

\* following parent_id from category c leads to `start` within `steps` steps
RECURSIVE returns_to(_, _, _)
returns_to(start, c, steps) ==
    IF steps = 0 \/ c \notin DOMAIN categories THEN FALSE
    ELSE \/ categories[c].parent_id = start
         \/ returns_to(start, categories[c].parent_id, steps - 1)

\* C28: when update_category calls interleave, each doing its cycle check and
\* then its write, no reachable state has a category that is its own ancestor.
C28_AcyclicUnderInterleaving ==
    \A c \in DOMAIN categories : ~returns_to(c, c, Cardinality(DOMAIN categories))

\* --------------------------------------- specification: the category tree
\* CategoryService.get_root_categories: the filter on a null parent_id is
\* dropped by BaseRepository.get_multi, which skips filters whose value is
\* None, so the query returns every active category
get_root_categories == {c \in DOMAIN categories : categories[c].is_active}

\* the categories build_tree lists under parent_id
listed_under(parent_id) ==
    IF parent_id = NoParent THEN get_root_categories
    ELSE get_subcategories(parent_id, TRUE)

\* plausible bug: the cap is compared one level too late
depth_reached_late(current_depth, max_depth) == current_depth > max_depth

\* build_tree: `if current_depth >= max_depth: return []`
depth_reached(current_depth, max_depth) == current_depth >= max_depth

\* one build_tree call still to run: its parent_id and current_depth
Frame(parent_id, current_depth) ==
    [parent_id |-> parent_id, current_depth |-> current_depth]

\* the build_tree calls made for the categories `cs`, in the order of the loop
RECURSIVE frames_for(_, _)
frames_for(cs, current_depth) ==
    IF cs = {} THEN <<>>
    ELSE LET c == Min(cs) IN
         <<Frame(c, current_depth)>> \o frames_for(cs \ {c}, current_depth)

\* CategoryService.get_category_hierarchy of request r: the root is validated
\* and the first build_tree call is made. `deepest` is the deepest level at
\* which the tree has a node so far, `nodes` says whether it has any.
get_category_hierarchy(r, root_category_id, max_depth) ==
    LET err == IF root_category_id # NoParent /\ root_category_id \notin DOMAIN categories
               THEN "NotFound" ELSE "ok"
    IN
    /\ calls[r] = Idle
    /\ calls' = IF err # "ok" THEN calls
                ELSE [calls EXCEPT ![r] =
                        [op |-> "get_category_hierarchy", max_depth |-> max_depth,
                         stack |-> <<Frame(root_category_id, 0)>>,
                         deepest |-> 0, nodes |-> FALSE]]
    /\ result' = IF err # "ok" THEN Result("get_category_hierarchy", err)
                 ELSE Untracked
    /\ UNCHANGED <<stock_quantity, is_active, current_price, carts, cart_items,
                   orders, tracked, categories, category_id>>

\* one call of build_tree: at the cap it returns the empty list; otherwise it
\* lists the categories under parent_id, puts each into the tree one level
\* down and calls itself for each
build_tree(r) ==
    LET frame == Head(calls[r].stack)
        listed == IF depth_reached(frame.current_depth, calls[r].max_depth) THEN {}
                  ELSE listed_under(frame.parent_id)
    IN
    /\ calls[r].op = "get_category_hierarchy"
    /\ calls[r].stack # <<>>
    /\ calls' = [calls EXCEPT
                    ![r].stack = frames_for(listed, frame.current_depth + 1)
                                     \o Tail(@),
                    ![r].deepest = IF listed = {} THEN @
                                   ELSE Max(@, frame.current_depth + 1),
                    ![r].nodes = @ \/ listed # {}]
    /\ result' = Untracked
    /\ UNCHANGED <<stock_quantity, is_active, current_price, carts, cart_items,
                   orders, tracked, categories, category_id>>

\* the outermost build_tree call has returned: the tree is the response
get_category_hierarchy_return(r) ==
    /\ calls[r].op = "get_category_hierarchy"
    /\ calls[r].stack = <<>>
    /\ calls' = [calls EXCEPT ![r] = Idle]
    /\ result' = ResultIn("get_category_hierarchy", "ok",
                          IF calls[r].nodes THEN "tree" ELSE "empty")
    /\ UNCHANGED <<stock_quantity, is_active, current_price, carts, cart_items,
                   orders, tracked, categories, category_id>>

\* the parent graph is written through the endpoint, which accepts cycles
HierarchyNext ==
    \/ create_category(NoParent)
    \/ \E c \in CategoryIds, parent \in {1, 2} : update_category_endpoint(c, parent)
    \/ \E root \in {NoParent, 1}, d \in {0 - 1, 0, MaxDepth} :
          get_category_hierarchy(1, root, d)
    \/ build_tree(1)
    \/ get_category_hierarchy_return(1)

\* a request that is served keeps running
SpecHierarchy ==
    /\ InitWith({"get_category_hierarchy"})
    /\ [][HierarchyNext]_vars
    /\ WF_vars(build_tree(1))
    /\ WF_vars(get_category_hierarchy_return(1))

in_hierarchy(r) == calls[r].op = "get_category_hierarchy"

\* C29: get_category_hierarchy terminates for every parent graph, cyclic ones
\* included; the tree it builds has no node deeper than max_depth levels below
\* the starting point, and none at all when max_depth <= 0.
C29_HierarchyBounded ==
    /\ [](in_hierarchy(1) =>
            /\ calls[1].deepest <= Max(0, calls[1].max_depth)
            /\ calls[1].max_depth <= 0 => ~calls[1].nodes)
    /\ (in_hierarchy(1) ~> calls[1] = Idle)

\* the traversal of a graph in which two categories are each other's parent
\* has finished with nodes on the deepest level the cap allows
C29_Witness ==
    /\ in_hierarchy(1)
    /\ calls[1].stack = <<>>
    /\ calls[1].max_depth = MaxDepth
    /\ calls[1].deepest = MaxDepth
    /\ \E c, d \in DOMAIN categories :
          c # d /\ categories[c].parent_id = d /\ categories[d].parent_id = c

\* ------------------------------------------- specification: db_retry
\* what one run of the body of CategoryService.create_category ends with when
\* the database connection holds
create_category_outcome(parent_id) ==
    IF parent_id = NoParent THEN "ok"
    ELSE IF parent_id \notin DOMAIN categories THEN "HTTPException"
    ELSE IF ~categories[parent_id].is_active THEN "HTTPException"
    ELSE "ok"

\* plausible bug: every exception is caught by the retrying clause
retryable_any(exc) == exc # "ok"

\* `except (OperationalError, DisconnectionError)`
retryable(exc) == exc \in {"OperationalError", "DisconnectionError"}

\* the wrapper of db_retry(max_retries) around create_category is entered:
\* last_exception = None and the loop starts at attempt 0. `outcomes` lists
\* how each invocation of the wrapped function ended.
wrapper(r, max_retries, parent_id) ==
    /\ calls[r] = Idle
    /\ calls' = [calls EXCEPT ![r] =
                    [op |-> "db_retry", max_retries |-> max_retries,
                     parent_id |-> parent_id, attempt |-> 0,
                     last_exception |-> "None", outcomes |-> <<>>,
                     pc |-> "loop", raised |-> "None"]]
    /\ result' = Untracked
    /\ UNCHANGED <<stock_quantity, is_active, current_price, carts, cart_items,
                   orders, tracked, categories, category_id>>

\* one pass of `for attempt in range(max_retries)`: the wrapped function is
\* invoked; `fault` is the connection error that hits it, if any. A result is
\* returned, a connection error is kept and either retried or raised again
\* on the last attempt, any other exception is raised at once.
wrapper_attempt(r, fault) ==
    LET c == calls[r]
        exc == IF fault # "None" THEN fault
               ELSE create_category_outcome(c.parent_id)
    IN
    /\ c.op = "db_retry"
    /\ c.pc = "loop"
    /\ c.attempt < c.max_retries
    /\ exc = "ok" => CategoryIds \ DOMAIN categories # {}
    /\ categories' =
          IF exc # "ok" THEN categories
          ELSE [k \in DOMAIN categories \cup {new_category_id} |->
                   IF k = new_category_id THEN Category(c.parent_id, TRUE)
                   ELSE categories[k]]
    /\ calls' = [calls EXCEPT ![r] =
          IF exc = "ok"
          THEN [c EXCEPT !.outcomes = Append(@, exc), !.pc = "returned"]
          ELSE IF retryable(exc)
          THEN IF c.attempt < c.max_retries - 1
               THEN [c EXCEPT !.outcomes = Append(@, exc),
                              !.last_exception = exc,
                              !.attempt = @ + 1]
               ELSE [c EXCEPT !.outcomes = Append(@, exc),
                              !.last_exception = exc,
                              !.pc = "raised", !.raised = exc]
          ELSE [c EXCEPT !.outcomes = Append(@, exc),
                         !.pc = "raised", !.raised = exc]]
    /\ result' = Untracked
    /\ UNCHANGED <<stock_quantity, is_active, current_price, carts, cart_items,
                   orders, tracked, category_id>>

\* the loop has run out: `if last_exception: raise last_exception`, else the
\* wrapper returns None
wrapper_loop_end(r) ==
    LET c == calls[r] IN
    /\ c.op = "db_retry"
    /\ c.pc = "loop"
    /\ c.attempt >= c.max_retries
    /\ calls' = [calls EXCEPT ![r] =
          IF c.last_exception # "None"
          THEN [c EXCEPT !.pc = "raised", !.raised = c.last_exception]
          ELSE [c EXCEPT !.pc = "returned"]]
    /\ result' = Untracked
    /\ UNCHANGED <<stock_quantity, is_active, current_price, carts, cart_items,
                   orders, tracked, categories, category_id>>

\* the caller has the wrapper's result or exception
wrapper_exit(r) ==
    LET c == calls[r] IN
    /\ c.op = "db_retry"
    /\ c.pc \in {"returned", "raised"}
    /\ calls' = [calls EXCEPT ![r] = Idle]
    /\ result' = ResultIn("create_category",
                          IF c.pc = "raised" THEN c.raised ELSE "ok",
                          IF c.outcomes = <<>> THEN "not invoked" ELSE "invoked")
    /\ UNCHANGED <<stock_quantity, is_active, current_price, carts, cart_items,
                   orders, tracked, categories, category_id>>

RetryNext ==
    \/ \E n \in 0..MaxRetries, parent_id \in {NoParent, MaxCategories} :
          wrapper(1, n, parent_id)
    \/ \E fault \in {"None", "OperationalError", "DisconnectionError"} :
          wrapper_attempt(1, fault)
    \/ wrapper_loop_end(1)
    \/ wrapper_exit(1)

SpecRetry == InitWith({"create_category"}) /\ [][RetryNext]_vars

in_retry(r) == calls[r].op = "db_retry"

connection_error(exc) == exc \in {"OperationalError", "DisconnectionError"}

\* C30: a function wrapped by db_retry(max_retries = n) is invoked at most n
\* times, and again only after an OperationalError or DisconnectionError; the
\* first successful result is returned with no further invocation, the n-th
\* connection failure is raised, and any other exception is raised by the
\* invocation that met it, without retry.
C30_RetryOnlyConnectionErrors ==
    in_retry(1) =>
        LET c == calls[1]
            n == Len(c.outcomes)
        IN
        /\ n <= c.max_retries
        /\ \A i \in 1..(n - 1) : connection_error(c.outcomes[i])
        /\ c.pc = "loop" => /\ n < c.max_retries \/ c.max_retries = 0
                            /\ \A i \in 1..n : connection_error(c.outcomes[i])
        /\ c.pc = "returned" /\ c.max_retries > 0 =>
              n > 0 /\ c.outcomes[n] = "ok"
        /\ c.pc = "raised" =>
              /\ n > 0 /\ c.outcomes[n] # "ok" /\ c.raised = c.outcomes[n]
              /\ connection_error(c.raised) => n = c.max_retries

\* the wrapped function has failed on the connection max_retries - 1 times,
\* has then returned a result, and a category has been created
C30_Witness ==
    /\ in_retry(1)
    /\ calls[1].pc = "returned"
    /\ calls[1].max_retries = MaxRetries
    /\ Len(calls[1].outcomes) = MaxRetries
    /\ DOMAIN categories # {}
====
